---- MODULE Spec2Model ----
(***************************************************************************)
(* A model of the syntaxTrees validation engine: Node.validate, the        *)
(* Field kinds used by the example grammar, execute_function_on_node with  *)
(* its backtracking loop, and the entry points of functions.py.            *)
(*                                                                         *)
(* Semi-structured values are records tagged by k:                         *)
(*   null, num (a Python int), bool, str, list (items: a sequence) and     *)
(*   map (items: a sequence of <<key, value>> pairs in insertion order).   *)
(* A call either returns or raises; both are "outcomes" that also carry    *)
(* the stack_objects as the call left them.                                *)
(***************************************************************************)
EXTENDS Integers, Sequences, FiniteSets, TLC

VARIABLES
    pc,                         \* position of the running entry point
    entry,                      \* the entry point that was called
    function,                   \* execute_function_on_node: function
    obj,                        \* execute_function_on_node: obj
    kwargs,                     \* execute_function_on_node: kwargs
    value,                      \* execute_function_on_node: value
    choice,                     \* execute_function_on_node: choice
    stack_objects,              \* the live stack_objects dictionary
    candidate_idx,              \* index of the next candidate of the loop
    successful_parsing_values,  \* the loop's list of successes
    outcome,                    \* what the last finished call returned/raised
    entry_stack_objects,        \* stack_objects as they were at the call
    tried,                      \* choice_types of the candidates tried so far
    prev,                       \* the tree that is being validated again
    registry,                   \* the tables of basics.py that the definitions fill
    classes,                    \* the class statements executed so far
    field_creation_order_counter,  \* basics._field_creation_order_counter
    registry_outcome,           \* what the last registry operation did
    field_input,                \* the Field and the value of a validate call
    field_outcome,              \* what that call returned or raised
    heap_call,                  \* a validate call on objects: its arguments and the heap before it
    heap_outcome                \* what that call returned or raised, and the heap after it

vars == <<pc, entry, function, obj, kwargs, value, choice, stack_objects,
          candidate_idx, successful_parsing_values, outcome,
          entry_stack_objects, tried, prev>>

registry_vars == <<registry, classes, field_creation_order_counter,
                   registry_outcome>>

field_vars == <<field_input, field_outcome>>

heap_vars == <<heap_call, heap_outcome>>

all_vars == <<vars, registry_vars, field_vars, heap_vars>>

-----------------------------------------------------------------------------
(* Values *)

NONE == "<None>"

Null == [k |-> "null"]
Num(n) == [k |-> "num", n |-> n]
Bool(b) == [k |-> "bool", b |-> b]
Str(s) == [k |-> "str", s |-> s]
List(items) == [k |-> "list", items |-> items]
Map(items) == [k |-> "map", items |-> items]

is_dict(v) == v.k = "map"
is_none(v) == v.k = "null"
\* isinstance(v, (str, int, float, bool))
is_primitive(v) == v.k \in {"str", "num", "bool"}
\* isinstance(v, (int, float)): bool is a subclass of int
is_number(v) == v.k \in {"num", "bool"}
\* the numeric value Python computes with: True is 1 and False is 0
number_of(v) == IF v.k = "bool" THEN (IF v.b THEN 1 ELSE 0) ELSE v.n

dict_keys(m) == [i \in 1..Len(m.items) |-> m.items[i][1]]
dict_has(m, key) == \E i \in 1..Len(m.items) : m.items[i][1] = key
dict_get(m, key) ==
    m.items[CHOOSE i \in 1..Len(m.items) : m.items[i][1] = key][2]
\* d[key] = v: an existing key keeps its position, a new key goes last
dict_set(m, key, v) ==
    IF dict_has(m, key)
    THEN Map([i \in 1..Len(m.items) |->
                IF m.items[i][1] = key THEN <<key, v>> ELSE m.items[i]])
    ELSE Map(Append(m.items, <<key, v>>))
\* OrderedDict.move_to_end(key): the variant that puts the key last
move_to_end_last(m, key) ==
    Map(SelectSeq(m.items, LAMBDA it : it[1] # key) \o
        << <<key, dict_get(m, key)>> >>)

\* OrderedDict.move_to_end(key, last=False)
move_to_front(m, key) ==
    Map(<< <<key, dict_get(m, key)>> >> \o
        SelectSeq(m.items, LAMBDA it : it[1] # key))

SeqToSet(s) == {s[i] : i \in 1..Len(s)}
IndexOf(s, e) == CHOOSE i \in 1..Len(s) : s[i] = e

-----------------------------------------------------------------------------
(* Outcomes and the stack_objects *)

Ok(res, so) == [st |-> "ok", res |-> res, so |-> so]
Raise(kind, msg, args, so) ==
    [st |-> "raise", kind |-> kind, msg |-> msg, args |-> args, so |-> so]
InvalidParamsException(msg, args, so) ==
    Raise("InvalidParamsException", msg, args, so)
ProgrammingError(msg, args, so) == Raise("ProgrammingError", msg, args, so)

is_ok(r) == r.st = "ok"
is_invalid(r) == r.st = "raise" /\ r.kind = "InvalidParamsException"

\* node_trace_step.__enter__
trace_enter(so, new_value, object) ==
    [so EXCEPT !.node_trace = Append(@, new_value),
               !.current_object = object]
\* the variant of __exit__ that pops the node_trace and leaves the
\* current_object as the body set it
trace_exit_keeping_object(r, previous_object) ==
    IF is_ok(r)
    THEN Ok(r.res, [r.so EXCEPT !.node_trace = SubSeq(@, 1, Len(@) - 1)])
    ELSE r

\* node_trace_step.__exit__: undone only when the body did not raise;
\* previous_object is the current_object found by __enter__
trace_exit(r, previous_object) ==
    IF is_ok(r)
    THEN Ok(r.res, [r.so EXCEPT
                      !.node_trace = SubSeq(@, 1, Len(@) - 1),
                      !.current_object = previous_object])
    ELSE r

-----------------------------------------------------------------------------
(* Keyword arguments: a function from argument names to entries *)

\* an ordinary Python value
Arg(v) == [t |-> "val", v |-> v]
\* basics.PASS_ARG_ALONG
PASS_ARG_ALONG == [t |-> "pass"]
\* basics.OverwriteKeywordArgOfField(value)
OverwriteKeywordArgOfField(v) == [t |-> "overwrite", v |-> v]
NoKwargs == <<>>
\* truth value of an entry: an OverwriteKeywordArgOfField object is truthy
truthy(e) == IF e.t = "val" THEN e.v ELSE TRUE

-----------------------------------------------------------------------------
(* Fields *)

\* a default that is a function returning the actual default value
Callable(v) == [k |-> "callable", produces |-> v]

\* Field.__init__
Field(kind, null, default, dont_print_default) ==
    [kind |-> kind, null |-> null, default |-> default,
     dont_auto_validate |-> FALSE, dont_print_default |-> dont_print_default,
     validation_accepts_nulls |-> FALSE,
     required |-> (is_none(default) /\ ~null)]

Float(min, max, null, default) ==
    [min |-> min, max |-> max] @@ Field("Float", null, default, FALSE)
Integer(min, max, null, default) ==
    [min |-> min, max |-> max] @@ Field("Integer", null, default, FALSE)
Boolean(null, default) == Field("Boolean", null, default, FALSE)
String(min_length, max_length, null, default, dont_print_default) ==
    [min_length |-> min_length, max_length |-> max_length] @@
    Field("String", null, default, dont_print_default)
Value(v, kw, null, default) ==
    [value |-> v, kwargs |-> kw] @@ Field("Value", null, default, FALSE)
Choice(c, kw, null, default) ==
    [choice |-> c, kwargs |-> kw] @@ Field("Choice", null, default, FALSE)
ListField(v, c, primitive, min_length, kw, null, default) ==
    [value |-> v, choice |-> c, primitive |-> primitive,
     min_length |-> min_length, kwargs |-> kw] @@
    Field("List", null, default, FALSE)
PrimitiveValueOrGetter(primitive_field, complex_field, null, default) ==
    [primitive_field |-> primitive_field, complex_field |-> complex_field] @@
    Field("PrimitiveValueOrGetter", null, default, FALSE)
\* List(primitive=None): no primitive field
NoField == [kind |-> NONE]
IntegerAsString(min, max, null, default) ==
    [min |-> min, max |-> max, min_length |-> Null, max_length |-> Null] @@
    Field("IntegerAsString", null, default, FALSE)
Mapping(string_key, content, null, default) ==
    [string_key |-> string_key, content |-> content] @@
    Field("Mapping", null, default, FALSE)
\* MultipleChoiceSelection.__init__: null=True, validation_accepts_nulls=True
MultipleChoiceSelection(choices) ==
    [choices |-> choices, kind |-> "MultipleChoiceSelection", null |-> TRUE,
     default |-> Null, dont_auto_validate |-> FALSE,
     dont_print_default |-> FALSE, validation_accepts_nulls |-> TRUE,
     required |-> FALSE]

-----------------------------------------------------------------------------
(* The registry: the example grammar of nodesExample.py, followed by a     *)
(* second grammar that exercises what the example grammar does not have:   *)
(* a group whose members overlap, a group of one member, and a node that   *)
(* belongs to no group and drops a superfluous key quietly. The members of *)
(* the group with overlap keep a record in the stack_objects, which the    *)
(* docstring of ConstantNode.validate describes as the use of that         *)
(* dictionary ("objects you want to keep track of").                       *)

PassAlong == [allow_user_input_node |-> PASS_ARG_ALONG]

\* AbstractNodeForNumbers._comment
comment_field == String(Null, Num(10 * 1000), TRUE, Null, TRUE)

ConstantNode ==
    [name |-> "constant", choice_of |-> "numerical_node",
     choice_type |-> "constant",
     fields |-> << <<"_comment", comment_field>>,
                   <<"val", Float(Num(-1000), Num(1000), FALSE, Null)>> >>,
     has_shortform |-> TRUE,
     shortform_field |-> Float(Null, Null, FALSE, Null),
     shortform_conversion |-> "val",
     required_additional_arguments_for_validation |->
        <<"allow_user_input_node">>,
     quietly_drop_superfluous_fields |-> <<>>,
     validate |-> "Node", evaluate |-> "ConstantNode"]

UserInputNode ==
    [name |-> "user_input", choice_of |-> "numerical_node",
     choice_type |-> "user_input",
     fields |-> << <<"_comment", comment_field>>,
                   <<"message", String(Null, Null, FALSE, Null, FALSE)>>,
                   <<"on_error",
                     PrimitiveValueOrGetter(
                        Integer(Null, Null, FALSE, Null),
                        Value("user_input", PassAlong, FALSE, Null),
                        FALSE, Num(0))>> >>,
     has_shortform |-> FALSE, shortform_field |-> NoField,
     required_additional_arguments_for_validation |->
        <<"allow_user_input_node">>,
     quietly_drop_superfluous_fields |-> <<>>,
     validate |-> "UserInputNode", evaluate |-> "UserInputNode"]

SumNode ==
    [name |-> "sum", choice_of |-> "numerical_node", choice_type |-> "sum",
     fields |-> << <<"_comment", comment_field>>,
                   <<"summands",
                     ListField(NONE, "numerical_node", NoField, Null,
                               PassAlong, FALSE, Null)>> >>,
     has_shortform |-> FALSE, shortform_field |-> NoField,
     required_additional_arguments_for_validation |->
        <<"allow_user_input_node">>,
     quietly_drop_superfluous_fields |-> <<>>,
     validate |-> "Node", evaluate |-> "SumNode"]

ConstantMultipleNode ==
    [name |-> "constant_multiple", choice_of |-> "numerical_node",
     choice_type |-> "constant_multiple",
     fields |-> << <<"_comment", comment_field>>,
                   <<"constant",
                     Choice("numerical_node",
                            [allow_user_input_node |-> Arg(FALSE)],
                            FALSE, Null)>>,
                   <<"rest",
                     Choice("numerical_node", PassAlong, FALSE, Null)>> >>,
     has_shortform |-> FALSE, shortform_field |-> NoField,
     required_additional_arguments_for_validation |->
        <<"allow_user_input_node">>,
     quietly_drop_superfluous_fields |-> <<>>,
     validate |-> "ConstantMultipleNode",
     evaluate |-> "ConstantMultipleNode"]

\* group "pair": every map that 'narrow' accepts is accepted by 'wide' too
NarrowNode ==
    [name |-> "narrow_node", choice_of |-> "pair", choice_type |-> "narrow",
     fields |-> << <<"x", Integer(Num(0), Null, FALSE, Null)>> >>,
     has_shortform |-> FALSE, shortform_field |-> NoField,
     required_additional_arguments_for_validation |-> <<>>,
     quietly_drop_superfluous_fields |-> <<>>,
     validate |-> "VisitingNode", evaluate |-> NONE]

WideNode ==
    [name |-> "wide_node", choice_of |-> "pair", choice_type |-> "wide",
     fields |-> << <<"x", Integer(Null, Null, FALSE, Null)>>,
                   <<"y", Integer(Null, Null, FALSE, Num(7))>>,
                   <<"flag", Boolean(TRUE, Null)>>,
                   <<"items",
                     ListField(NONE, NONE, Integer(Null, Null, FALSE, Null),
                               Null, NoKwargs, FALSE,
                               Callable(List(<<>>)))>> >>,
     has_shortform |-> FALSE, shortform_field |-> NoField,
     required_additional_arguments_for_validation |-> <<>>,
     quietly_drop_superfluous_fields |-> <<>>,
     validate |-> "VisitingNode", evaluate |-> NONE]

\* group "single": one member
SoloNode ==
    [name |-> "solo_node", choice_of |-> "single", choice_type |-> "solo",
     fields |-> << <<"x", Integer(Null, Null, FALSE, Num(1))>> >>,
     has_shortform |-> FALSE, shortform_field |-> NoField,
     required_additional_arguments_for_validation |-> <<>>,
     quietly_drop_superfluous_fields |-> <<>>,
     validate |-> "Node", evaluate |-> NONE]

\* a node without choice_of/choice_type
PlainNode ==
    [name |-> "plain_node", choice_of |-> NONE, choice_type |-> NONE,
     fields |-> << <<"name", String(Null, Null, FALSE, Null, FALSE)>>,
                   <<"child", Value("solo_node", NoKwargs, TRUE, Null)>>,
                   <<"size", Integer(Null, Null, FALSE, Num(3))>> >>,
     has_shortform |-> FALSE, shortform_field |-> NoField,
     required_additional_arguments_for_validation |-> <<>>,
     quietly_drop_superfluous_fields |-> <<"legacy">>,
     validate |-> "Node", evaluate |-> NONE]

\* a node whose shortform_conversion returns the value it is given
EchoNode ==
    [name |-> "echo_node", choice_of |-> NONE, choice_type |-> NONE,
     fields |-> << <<"x", Integer(Null, Null, FALSE, Num(1))>> >>,
     has_shortform |-> TRUE,
     shortform_field |-> String(Null, Null, FALSE, Null, FALSE),
     shortform_conversion |-> "same",
     required_additional_arguments_for_validation |-> <<>>,
     quietly_drop_superfluous_fields |-> <<>>,
     validate |-> "Node", evaluate |-> NONE]

\* _all_nodes, in the order of definition
all_nodes == <<ConstantNode, UserInputNode, SumNode, ConstantMultipleNode,
               NarrowNode, WideNode, SoloNode, PlainNode, EchoNode>>

node_names == {all_nodes[i].name : i \in 1..Len(all_nodes)}
choice_names == {all_nodes[i].choice_of : i \in 1..Len(all_nodes)} \ {NONE}

\* _value_to_node[value]
value_to_node(v) ==
    all_nodes[CHOOSE i \in 1..Len(all_nodes) : all_nodes[i].name = v]
\* _value_to_node_fields[name]: the ordered list of (field_name, Field)
value_to_node_fields(name) == value_to_node(name).fields
\* _choice_to_type_to_values[choice]: (choice_type, name), definition order
choice_to_type_to_values(c) ==
    LET members == SelectSeq(all_nodes, LAMBDA n : n.choice_of = c)
    IN  [i \in 1..Len(members) |->
            <<members[i].choice_type, members[i].name>>]
has_choice_type(node) == node.choice_type # NONE

-----------------------------------------------------------------------------
(* fields._get_kwargs_to_use: the kwargs a reference field hands down *)

\* given_kwargs[k] of a PASS_ARG_ALONG entry raises KeyError when absent
kwargs_key_error(given_kwargs, field_kwargs) ==
    \E k \in DOMAIN field_kwargs :
        field_kwargs[k].t = "pass" /\ k \notin DOMAIN given_kwargs

get_kwargs_to_use(given_kwargs, field_kwargs) ==
    LET forced == {k \in DOMAIN given_kwargs :
                        given_kwargs[k].t = "overwrite"}
    IN  [k \in (DOMAIN field_kwargs) \cup forced |->
            IF k \in forced THEN Arg(given_kwargs[k].v)
            ELSE IF field_kwargs[k].t = "pass" THEN given_kwargs[k]
            ELSE field_kwargs[k]]

-----------------------------------------------------------------------------
(* The copy of the stack_objects made for one candidate *)

RECURSIVE json_copy(_)
\* json.loads(json.dumps(v)): the value is rebuilt, keys keep their order
json_copy(v) ==
    IF v.k = "list" THEN List([i \in 1..Len(v.items) |-> json_copy(v.items[i])])
    ELSE IF v.k = "map"
    THEN Map([i \in 1..Len(v.items) |->
                <<v.items[i][1], json_copy(v.items[i][2])>>])
    ELSE v

\* lines 456-460. node_trace and immutable_fields are lists of strings,
\* which a copy leaves as they are.
copy_of_stack_objects(so) ==
    LET immutable_fields == SeqToSet(so.immutable_fields)
        copy(k) == IF k \in immutable_fields THEN so[k] ELSE json_copy(so[k])
    IN  IF "visited" \in DOMAIN so
        THEN [node_trace |-> so.node_trace,
              current_object |-> copy("current_object"),
              visited |-> copy("visited"),
              immutable_fields |-> so.immutable_fields]
        ELSE [node_trace |-> so.node_trace,
              current_object |-> copy("current_object"),
              immutable_fields |-> so.immutable_fields]

\* the slots that are altered in place: node_trace_step appends to and pops
\* from node_trace, a visiting node appends to visited. current_object is
\* assigned, never altered.
altered_in_place == {"node_trace", "visited"}

\* the variant in which the candidate works on the live stack_objects
\* instead of on a copy of it
context_of_the_candidate(so, candidate_so) == candidate_so

\* A slot named in immutable_fields is the same object in the copy and in
\* the original (line 460), so what a candidate does to it in place shows
\* in the original.
after_candidate(so, candidate_so) ==
    LET shared == SeqToSet(so.immutable_fields) \cap altered_in_place
        now(k) == IF k \in shared THEN candidate_so[k] ELSE so[k]
    IN  IF "visited" \in DOMAIN so
        THEN [so EXCEPT !.node_trace = now("node_trace"),
                        !.visited = now("visited")]
        ELSE [so EXCEPT !.node_trace = now("node_trace")]

-----------------------------------------------------------------------------
(* Field.validate and the helper_for_validation of each kind of Field *)



\* the floats that are no number of the model: float('nan'), float('inf')
\* and float('-inf')
NaN == [k |-> "float", f |-> "nan"]
Infinity == [k |-> "float", f |-> "inf"]
MinusInfinity == [k |-> "float", f |-> "-inf"]
\* isinstance(val, float), math.isnan(val), math.isinf(val); the floats
\* that are finite are the numbers of the model
is_special_float(v) == v.k = "float"
isnan(v) == v.k = "float" /\ v.f = "nan"
isinf(v) == v.k = "float" /\ v.f \in {"inf", "-inf"}

\* a > b: no comparison with NaN is true
greater_than(a, b) ==
    CASE isnan(a) \/ isnan(b) -> FALSE
      [] a = Infinity -> b # Infinity
      [] a = MinusInfinity -> FALSE
      [] b = Infinity -> FALSE
      [] b = MinusInfinity -> TRUE
      [] OTHER -> number_of(a) > number_of(b)

\* compare a bound of a numeric Field with the value
below_min(field, val) ==
    ~is_none(field.min) /\ greater_than(field.min, val)
above_max(field, val) ==
    ~is_none(field.max) /\ greater_than(val, field.max)

\* the variant that goes on to the bounds without looking for NaN and for
\* the infinite values
Float_helper_comparing_only(field, val, so) ==
    IF ~is_number(val) /\ ~is_special_float(val)
    THEN InvalidParamsException("the value must be an int or a float",
                                <<>>, so)
    ELSE IF below_min(field, val)
    THEN InvalidParamsException("the value is below the minimum", <<>>, so)
    ELSE IF above_max(field, val)
    THEN InvalidParamsException("the value is above the maximum", <<>>, so)
    ELSE Ok(val, so)

Float_helper_for_validation(field, val, so) ==
    IF ~is_number(val) /\ ~is_special_float(val)
    THEN InvalidParamsException("the value must be an int or a float",
                                <<>>, so)
    ELSE IF isnan(val)
    THEN InvalidParamsException("the value must not be NaN.", <<>>, so)
    ELSE IF isinf(val)
    THEN InvalidParamsException("the value must not be infinite.", <<>>, so)
    ELSE IF below_min(field, val)
    THEN InvalidParamsException("the value is below the minimum", <<>>, so)
    ELSE IF above_max(field, val)
    THEN InvalidParamsException("the value is above the maximum", <<>>, so)
    ELSE Ok(val, so)

Integer_helper_for_validation(field, val, so) ==
    IF ~is_number(val)
    THEN InvalidParamsException("the value must be an integer", <<>>, so)
    ELSE IF below_min(field, val)
    THEN InvalidParamsException("the value is below the minimum", <<>>, so)
    ELSE IF above_max(field, val)
    THEN InvalidParamsException("the value is above the maximum", <<>>, so)
    ELSE Ok(val, so)

Boolean_helper_for_validation(field, val, so) ==
    IF val.k # "bool"
    THEN InvalidParamsException("the field must be a boolean value", <<>>, so)
    ELSE Ok(val, so)

String_helper_for_validation(field, val, so) ==
    IF val.k # "str"
    THEN InvalidParamsException("the value must be a string", <<>>, so)
    ELSE IF ~is_none(field.min_length) /\ field.min_length.n > Len(val.s)
    THEN InvalidParamsException("the value is below the minimum length",
                                <<>>, so)
    ELSE IF ~is_none(field.max_length) /\ field.max_length.n < Len(val.s)
    THEN InvalidParamsException("the value exceeds the maximum length",
                                <<>>, so)
    ELSE Ok(val, so)

\* the characters of the strings of the model, in the order of their code
\* points
Characters == " +-0123456789B_absx"
code_point(c) ==
    CHOOSE i \in 1..Len(Characters) : SubSeq(Characters, i, i) = c
char_at(s, i) == SubSeq(s, i, i)
is_digit(c) == \E d \in 1..10 : SubSeq("0123456789", d, d) = c
digit_of(c) == (CHOOSE d \in 1..10 : SubSeq("0123456789", d, d) = c) - 1

\* s < t for two Python strings
RECURSIVE string_less(_, _)
string_less(s, t) ==
    CASE t = "" -> FALSE
      [] s = "" -> TRUE
      [] char_at(s, 1) # char_at(t, 1) ->
            code_point(char_at(s, 1)) < code_point(char_at(t, 1))
      [] OTHER -> string_less(Tail(s), Tail(t))

\* str.strip() as int() applies it
RECURSIVE strip(_)
strip(s) ==
    CASE s = "" -> s
      [] char_at(s, 1) = " " -> strip(Tail(s))
      [] char_at(s, Len(s)) = " " -> strip(SubSeq(s, 1, Len(s) - 1))
      [] OTHER -> s

\* the digits of an integer literal: underscores stand between two digits
is_digits(s) ==
    /\ s # ""
    /\ \A i \in 1..Len(s) :
            \/ is_digit(char_at(s, i))
            \/ /\ char_at(s, i) = "_"
               /\ 1 < i /\ i < Len(s)
               /\ is_digit(char_at(s, i - 1))
               /\ is_digit(char_at(s, i + 1))

RECURSIVE digits_value(_, _)
digits_value(s, n) ==
    CASE s = "" -> n
      [] char_at(s, 1) = "_" -> digits_value(Tail(s), n)
      [] OTHER -> digits_value(Tail(s), 10 * n + digit_of(char_at(s, 1)))

\* int(s) for a str: the integer, or a ValueError
int(s) ==
    LET t == strip(s)
        signed == t # "" /\ char_at(t, 1) \in {"+", "-"}
        digits == IF signed THEN Tail(t) ELSE t
    IN  IF ~is_digits(digits) THEN [st |-> "ValueError"]
        ELSE [st |-> "ok",
              n |-> IF signed /\ char_at(t, 1) = "-"
                    THEN 0 - digits_value(digits, 0)
                    ELSE digits_value(digits, 0)]

\* str(n) for an int
RECURSIVE str(_)
str(n) ==
    CASE n < 0 -> "-" \o str(0 - n)
      [] n < 10 -> char_at("0123456789", n + 1)
      [] OTHER -> str(n \div 10) \o char_at("0123456789", (n % 10) + 1)

\* IntegerAsString.helper_for_validation: what String.helper_for_validation
\* raises and what int raises give the same exception
IntegerAsString_helper_for_validation(field, val, so) ==
    LET checked == String_helper_for_validation(field, val, so)
    IN  CASE ~is_ok(checked) \/ int(val.s).st # "ok" ->
                InvalidParamsException(
                    "the value must be a string that can be parsed into an integer",
                    <<>>, so)
          [] ~is_none(field.min) /\ field.min.n > int(val.s).n ->
                InvalidParamsException("the value is below the minimum",
                                       <<>>, so)
          [] ~is_none(field.max) /\ field.max.n < int(val.s).n ->
                InvalidParamsException("the value is above the maximum",
                                       <<>>, so)
          [] OTHER -> Ok(Str(str(int(val.s).n)), so)

\* bool(a) for a value
is_true(a) ==
    CASE a.k = "null" -> FALSE
      [] a.k = "bool" -> a.b
      [] a.k = "num" -> a.n # 0
      [] a.k = "str" -> a.s # ""
      [] OTHER -> a.items # <<>>

\* a in self.choices, the choices being strings
is_a_choice(field, a) == a.k = "str" /\ a.s \in SeqToSet(field.choices)

\* MultipleChoiceSelection.helper_for_validation: any() asks whether one
\* of the values that are not choices is true
MultipleChoiceSelection_helper_for_validation(field, val, so) ==
    LET items == CASE val.k = "null" -> <<>>
                   [] val.k = "str" -> <<val>>
                   [] val.k = "list" -> val.items
                   [] OTHER -> <<>>
        not_choices == SelectSeq(items, LAMBDA a : ~is_a_choice(field, a))
        tmp == SelectSeq(field.choices,
                         LAMBDA c : \E i \in 1..Len(items) : items[i] = Str(c))
    IN  IF \/ val.k \notin {"null", "str", "list"}
           \/ \E i \in 1..Len(not_choices) : is_true(not_choices[i])
        THEN InvalidParamsException("The value is not valid.", <<>>, so)
        ELSE Ok(List([i \in 1..Len(tmp) |-> Str(tmp[i])]), so)

\* the key of the sort for the keys of an IntegerAsString
int_less(s, t) == int(s).n < int(t).n

\* sorted(res.items(), key=...): the items by their keys, which differ
sorted_items(items, as_integers) ==
    LET n == Len(items)
        less(s, t) == IF as_integers THEN int_less(s, t) ELSE string_less(s, t)
        rank(i) == 1 + Cardinality({j \in 1..n : less(items[j][1], items[i][1])})
    IN  [p \in 1..n |-> items[CHOOSE i \in 1..n : rank(i) = p]]

\* the variant of the test below that never finds the key
key_is_new(res, validated_key) == FALSE

\* validated_key in res
key_occurs_twice(res, validated_key) == dict_has(res, validated_key)

\* the variant that stores the default as it is declared, a function that
\* returns the default value included
default_as_declared(field) == field.default

\* get the value a default stands for (Node.validate, lines 145-150)
default_value_of(field) ==
    IF field.default.k = "callable" THEN field.default.produces
    ELSE field.default

-----------------------------------------------------------------------------
(* The recursive descent: Field.validate, Node.validate, the validate and  *)
(* evaluate methods of the nodes, and execute_function_on_node             *)

\* Every call that can come back to its caller goes through run, which
\* hands it to the operator that models the callee.
RECURSIVE run(_, _)
call_Field_validate(field, val, so, kw) ==
    run("Field_validate", <<field, val, so, kw>>)
call_Node_validate(cls, o, so, kw) ==
    run("Node_validate", <<cls, o, so, kw>>)
call_node_function(cls, fn, o, so, kw) ==
    run("node_function", <<cls, fn, o, so, kw>>)
call_execute_function_on_node(fn, o, so, kw, v, c) ==
    run("execute_function_on_node", <<fn, o, so, kw, v, c>>)
call_dispatch(fn, o, so, kw, v, c) == run("dispatch", <<fn, o, so, kw, v, c>>)
call_try_candidate(candidate_node, o, so, kw) ==
    run("try_candidate", <<candidate_node, o, so, kw>>)

RECURSIVE List_elements(_, _, _, _, _, _)
RECURSIVE Mapping_items(_, _, _, _, _, _)
RECURSIVE Node_validate_fields(_, _, _, _, _, _)
RECURSIVE SumNode_evaluate_loop(_, _, _, _, _)
RECURSIVE candidates_loop(_, _, _, _, _, _)

\* the body of List.helper_for_validation's loop, from element i on
List_elements(field, items, i, so, kw, res) ==
    IF i > Len(items) THEN Ok(List(res), so)
    ELSE
      LET element == items[i]
          so1 == trace_enter(so, "index " \o ToString(i - 1), element)
          check_for_primitive ==
              IF field.primitive.kind = NONE THEN FALSE
              ELSE IF field.value = NONE /\ field.choice = NONE THEN TRUE
              ELSE is_primitive(element)
          validated_element ==
              CASE check_for_primitive ->
                    call_Field_validate(field.primitive, element, so1, kw)
                [] kwargs_key_error(kw, field.kwargs) ->
                    Raise("KeyError", "kwargs", <<>>, so1)
                [] OTHER ->
                    call_execute_function_on_node(
                        "validate", element, so1,
                        get_kwargs_to_use(kw, field.kwargs),
                        field.value, field.choice)
          r == trace_exit(validated_element, so.current_object)
      \* what the element raises leaves the node_trace_step as it is
      IN  IF validated_element.st = "raise" THEN validated_element
          ELSE List_elements(field, items, i + 1, r.so, kw,
                             Append(res, r.res))

\* the body of Mapping.helper_for_validation's loop, from item i on,
\* and the ordering of the result
Mapping_items(field, items, i, so, kw, res) ==
    IF i > Len(items)
    THEN Ok(Map(sorted_items(res.items,
                             field.string_key.kind = "IntegerAsString")), so)
    ELSE
      LET k == items[i][1]
          v == items[i][2]
          key == call_Field_validate(field.string_key, Str(k),
                                     trace_enter(so, "key", Str(k)), kw)
          validated_key == trace_exit(key, so.current_object)
          content == call_Field_validate(
                        field.content, v,
                        trace_enter(validated_key.so, "value for key", v), kw)
          validated_value == trace_exit(content, so.current_object)
      IN  CASE is_invalid(key) ->
                InvalidParamsException("could not parse the key", <<>>, key.so)
            [] ~is_ok(key) -> key
            [] ~is_ok(content) -> content
            [] key_occurs_twice(res, validated_key.res.s) ->
                InvalidParamsException(
                    "after validating and simplifying, the key occurs more than once.",
                    <<>>, validated_value.so)
            [] OTHER ->
                Mapping_items(field, items, i + 1, validated_value.so, kw,
                              dict_set(res, validated_key.res.s,
                                       validated_value.res))

helper_for_validation(field, val, so, kw) ==
    CASE field.kind = "Float" -> Float_helper_for_validation(field, val, so)
      [] field.kind = "IntegerAsString" ->
            IntegerAsString_helper_for_validation(field, val, so)
      [] field.kind = "MultipleChoiceSelection" ->
            MultipleChoiceSelection_helper_for_validation(field, val, so)
      [] field.kind = "Mapping" /\ ~is_dict(val) ->
            InvalidParamsException("the value must be a dictionary", <<>>, so)
      [] field.kind = "Mapping" ->
            Mapping_items(field, val.items, 1, so, kw, Map(<<>>))
      [] field.kind = "Integer" ->
            Integer_helper_for_validation(field, val, so)
      [] field.kind = "Boolean" ->
            Boolean_helper_for_validation(field, val, so)
      [] field.kind = "String" -> String_helper_for_validation(field, val, so)
      [] field.kind \in {"Value", "Choice"}
            /\ kwargs_key_error(kw, field.kwargs) ->
            Raise("KeyError", "kwargs", <<>>, so)
      [] field.kind = "Value" ->
            call_execute_function_on_node(
                "validate", val, so,
                get_kwargs_to_use(kw, field.kwargs), field.value, NONE)
      [] field.kind = "Choice" ->
            call_execute_function_on_node(
                "validate", val, so,
                get_kwargs_to_use(kw, field.kwargs), NONE, field.choice)
      [] field.kind = "List" /\ val.k # "list" ->
            InvalidParamsException("the value must be a list", <<>>, so)
      [] field.kind = "List" /\ ~is_none(field.min_length)
            /\ Len(val.items) < field.min_length.n ->
            InvalidParamsException("the list must have at least", <<>>, so)
      [] field.kind = "List" ->
            List_elements(field, val.items, 1, so, kw, <<>>)
      [] field.kind = "PrimitiveValueOrGetter" /\ is_primitive(val) ->
            call_Field_validate(field.primitive_field, val, so, kw)
      [] field.kind = "PrimitiveValueOrGetter" ->
            call_Field_validate(field.complex_field, val, so, kw)

\* Field.validate (allow_null is self.null)
Field_validate(field, val, so, kw) ==
    CASE ~is_none(val) \/ (field.null /\ field.validation_accepts_nulls) ->
            helper_for_validation(field, val, so, kw)
      [] ~field.null ->
            InvalidParamsException("the value is not allowed to be null.",
                                   <<>>, so)
      [] OTHER -> Ok(Null, so)

\* Meta.shortform_conversion: that of ConstantNode returns a dictionary
\* with the value as 'val'
shortform_conversion(cls, shortform_value) ==
    IF cls.shortform_conversion = "val"
    THEN Map(<< <<"val", shortform_value>> >>)
    ELSE shortform_value

ordered_field_names(cls) ==
    [i \in 1..Len(cls.fields) |-> cls.fields[i][1]]

\* the variant that lets 'type' pass for every node
key_or_type_is_accepted(cls, k) ==
    \/ k \in SeqToSet(cls.quietly_drop_superfluous_fields)
    \/ k = "type"
    \/ k \in SeqToSet(ordered_field_names(cls))

\* is k a key that Node.validate does not reject (lines 118-128)
key_is_accepted(cls, k) ==
    \/ k \in SeqToSet(cls.quietly_drop_superfluous_fields)
    \/ k = "type" /\ has_choice_type(cls)
    \/ k \in SeqToSet(ordered_field_names(cls))

\* collections.OrderedDict(sorted(res_dict.items(), key=index of the name))
sorted_by_field_order(cls, res_dict) ==
    LET names == SelectSeq(ordered_field_names(cls),
                           LAMBDA n : dict_has(res_dict, n))
    IN  Map([i \in 1..Len(names) |-> <<names[i], dict_get(res_dict, names[i])>>])

\* the sanity check at the end of each round of the loop (lines 152-156)
null_where_not_allowed(field, res_dict, field_name) ==
    /\ ~field.dont_print_default
    /\ is_none(dict_get(res_dict, field_name))
    /\ ~field.null

\* the loop over the fields of Node.validate, from field i on
Node_validate_fields(cls, o, so, kw, i, res_dict) ==
    IF i > Len(cls.fields)
    THEN Ok(sorted_by_field_order(cls, res_dict), so)
    ELSE
      LET field_name == cls.fields[i][1]
          field == cls.fields[i][2]
          field_value == dict_get(o, field_name)
          validated == call_Field_validate(
                           field, field_value,
                           trace_enter(so, field_name, field_value), kw)
          r == trace_exit(validated, so.current_object)
          res1 == IF dict_has(o, field_name)
                  THEN dict_set(res_dict, field_name, r.res)
                  ELSE dict_set(res_dict, field_name, default_value_of(field))
      IN  CASE field.dont_auto_validate ->
                Node_validate_fields(cls, o, so, kw, i + 1, res_dict)
            [] dict_has(o, field_name) ->
                \* what the field raises leaves the node_trace_step as it is
                CASE validated.st = "raise" -> validated
                  [] null_where_not_allowed(field, res1, field_name) ->
                        InvalidParamsException("the value must not be null",
                                               <<>>, r.so)
                  [] OTHER ->
                        Node_validate_fields(cls, o, r.so, kw, i + 1, res1)
            [] field.required ->
                InvalidParamsException("missing value for the required field",
                                       <<field_name>>, so)
            [] ~field.dont_print_default ->
                IF null_where_not_allowed(field, res1, field_name)
                THEN InvalidParamsException("the value must not be null",
                                            <<>>, so)
                ELSE Node_validate_fields(cls, o, so, kw, i + 1, res1)
            [] OTHER -> Node_validate_fields(cls, o, so, kw, i + 1, res_dict)

\* Node.validate from line 115 on: o is a dict
Node_validate_dict(cls, o, so, kw) ==
    LET keys == dict_keys(o)
        bad == {i \in 1..Len(keys) : ~key_is_accepted(cls, keys[i])}
    IN  IF bad = {}
        THEN Node_validate_fields(cls, o, so, kw, 1, Map(<<>>))
        ELSE InvalidParamsException(
                 "is not a valid field name",
                 <<keys[CHOOSE i \in bad : \A j \in bad : i <= j]>>
                    \o ordered_field_names(cls), so)

\* the variant without a shortform: only a dictionary is validated
Node_validate_without_shortform(cls, o, so, kw) ==
    IF is_dict(o) THEN Node_validate_dict(cls, o, so, kw)
    ELSE InvalidParamsException("the value must be a dictionary", <<>>, so)

\* Node.validate
Node_validate(cls, o, so, kw) ==
    LET so1 == trace_enter(so, "conversion from shortform", o)
        tmp == call_Field_validate(cls.shortform_field, o, so1, kw)
        converted == shortform_conversion(cls, o)
    IN  CASE is_dict(o) -> Node_validate_dict(cls, o, so, kw)
          [] ~cls.has_shortform ->
                InvalidParamsException("the value must be a dictionary",
                                       <<>>, so)
          [] tmp.st = "raise" -> tmp
          [] ~is_dict(converted) ->
                ProgrammingError("the shortform conversion did not return a dict",
                                 <<>>, so1)
          [] OTHER ->
                Node_validate_dict(cls, converted,
                                   trace_exit(tmp, so.current_object).so, kw)

\* UserInputNode.validate
UserInputNode_validate(cls, o, so, kw) ==
    LET r == call_Node_validate(cls, o, so, kw)
    IN  IF ~is_ok(r) THEN r
        ELSE IF "allow_user_input_node" \notin DOMAIN kw
        THEN Raise("KeyError", "allow_user_input_node", <<>>, r.so)
        ELSE IF ~truthy(kw["allow_user_input_node"])
        THEN Raise("Exception", "You can't ask for input in this branch!",
                   <<>>, r.so)
        ELSE r

\* the validate of a node that keeps a record in stack_objects['visited']
\* of the nodes that were visited, then validates as Node.validate does
VisitingNode_validate(cls, o, so, kw) ==
    call_Node_validate(
        cls, o,
        IF "visited" \in DOMAIN so
        THEN [so EXCEPT !.visited = List(Append(@.items, Str(cls.name)))]
        ELSE so,
        kw)

\* the variant that validates the fields and leaves the 'constant' part as
\* it was validated
ConstantMultipleNode_validate_fields_only(cls, o, so, kw) ==
    call_Node_validate(cls, o, so, kw)


\* ConstantMultipleNode.validate
ConstantMultipleNode_validate(cls, o, so, kw) ==
    LET r1 == call_Node_validate(cls, o, so, kw)
        constant_part == dict_get(r1.res, "constant")
        r2 == trace_exit(
                  call_execute_function_on_node(
                      "evaluate", constant_part,
                      trace_enter(r1.so,
                          "[validating constant_multiple, evaluating constant part]",
                          constant_part),
                      NoKwargs, NONE, "numerical_node"),
                  r1.so.current_object)
        r3 == trace_exit(
                  call_execute_function_on_node(
                      "validate", r2.res,
                      trace_enter(r2.so,
                          "[validating constant_multiple, re-validating constant part after validation]",
                          r2.res),
                      [allow_user_input_node |-> Arg(FALSE)],
                      "constant", NONE),
                  r2.so.current_object)
    IN  IF ~is_ok(r1) THEN r1
        ELSE IF ~is_ok(r2) THEN r2
        ELSE IF ~is_ok(r3) THEN r3
        ELSE call_Node_validate(cls, dict_set(r1.res, "constant", r3.res),
                           r3.so, kw)

\* ConstantNode.evaluate: obj['val']
ConstantNode_evaluate(cls, o, so, kw) ==
    IF ~is_dict(o) THEN Raise("TypeError", "obj['val']", <<>>, so)
    ELSE IF ~dict_has(o, "val") THEN Raise("KeyError", "val", <<>>, so)
    ELSE Ok(dict_get(o, "val"), so)

\* UserInputNode.evaluate prints the message and waits for input(); what
\* it returns depends on the reply, which this model does not follow
UserInputNode_evaluate(cls, o, so, kw) ==
    IF ~is_dict(o) THEN Raise("TypeError", "obj['message']", <<>>, so)
    ELSE IF ~dict_has(o, "message") THEN Raise("KeyError", "message", <<>>, so)
    ELSE Raise("input()", "waiting for the user", <<>>, so)

\* the loop of SumNode.evaluate, from summand i on
SumNode_evaluate_loop(items, i, so, kw, res) ==
    IF i > Len(items) THEN Ok(Num(res), so)
    ELSE LET r == call_execute_function_on_node("evaluate", items[i], so, kw,
                                           NONE, "numerical_node")
         IN  IF ~is_ok(r) THEN r
             ELSE IF ~is_number(r.res)
             THEN Raise("TypeError", "res += a", <<>>, r.so)
             ELSE SumNode_evaluate_loop(items, i + 1, r.so, kw,
                                        res + number_of(r.res))

\* SumNode.evaluate
SumNode_evaluate(cls, o, so, kw) ==
    IF ~is_dict(o) THEN Raise("TypeError", "obj['summands']", <<>>, so)
    ELSE IF ~dict_has(o, "summands") THEN Raise("KeyError", "summands", <<>>, so)
    ELSE LET summands == dict_get(o, "summands")
         IN  IF summands.k = "list"
             THEN SumNode_evaluate_loop(summands.items, 1, so, kw, 0)
             ELSE IF summands.k = "map"
             \* iterating over a dict yields its keys, which are strings
             THEN SumNode_evaluate_loop(
                      [i \in 1..Len(summands.items) |->
                          Str(summands.items[i][1])], 1, so, kw, 0)
             ELSE IF summands.k = "str"
             \* iterating over a string yields strings of one character
             THEN SumNode_evaluate_loop(
                      [i \in 1..Len(summands.s) |-> Str(summands.s)],
                      1, so, kw, 0)
             ELSE Raise("TypeError", "for a in obj['summands']", <<>>, so)

\* ConstantMultipleNode.evaluate
ConstantMultipleNode_evaluate(cls, o, so, kw) ==
    LET so1 == trace_enter(so, "[evaluating constant_multiple]", o)
        missing == ~is_dict(o) \/ ~dict_has(o, "constant")
        constant_part == dict_get(o, "constant")
        r1 == trace_exit(
                  call_execute_function_on_node(
                      "evaluate", constant_part,
                      trace_enter(so1,
                          "[evaluating constant_multiple, constant part]",
                          constant_part),
                      kw, NONE, "numerical_node"),
                  so1.current_object)
        rest_part == dict_get(o, "rest")
        r2 == trace_exit(
                  call_execute_function_on_node(
                      "evaluate", rest_part,
                      trace_enter(r1.so,
                          "[evaluating constant_multiple, non-constant part]",
                          rest_part),
                      kw, NONE, "numerical_node"),
                  r1.so.current_object)
    IN  IF missing THEN Raise("KeyError", "constant", <<>>, so1)
        ELSE IF ~is_ok(r1) THEN r1
        ELSE IF ~dict_has(o, "rest") THEN Raise("KeyError", "rest", <<>>, r1.so)
        ELSE IF ~is_ok(r2) THEN r2
        \* the product is computed after the outer node_trace_step is left
        ELSE IF ~is_number(r1.res) \/ ~is_number(r2.res)
        THEN Raise("TypeError", "constant * rest", <<>>,
                   trace_exit(r2, so.current_object).so)
        ELSE Ok(Num(number_of(r1.res) * number_of(r2.res)),
                trace_exit(r2, so.current_object).so)

\* getattr(selected_node, function)(selected_node, obj, stack_objects, kwargs)
node_function(cls, fn, o, so, kw) ==
    CASE fn = "validate" /\ cls.validate = "Node" ->
            call_Node_validate(cls, o, so, kw)
      [] fn = "validate" /\ cls.validate = "UserInputNode" ->
            UserInputNode_validate(cls, o, so, kw)
      [] fn = "validate" /\ cls.validate = "ConstantMultipleNode" ->
            ConstantMultipleNode_validate(cls, o, so, kw)
      [] fn = "validate" /\ cls.validate = "VisitingNode" ->
            VisitingNode_validate(cls, o, so, kw)
      [] fn = "evaluate" /\ cls.evaluate = "ConstantNode" ->
            ConstantNode_evaluate(cls, o, so, kw)
      [] fn = "evaluate" /\ cls.evaluate = "UserInputNode" ->
            UserInputNode_evaluate(cls, o, so, kw)
      [] fn = "evaluate" /\ cls.evaluate = "SumNode" ->
            SumNode_evaluate(cls, o, so, kw)
      [] fn = "evaluate" /\ cls.evaluate = "ConstantMultipleNode" ->
            ConstantMultipleNode_evaluate(cls, o, so, kw)
      [] OTHER -> Raise("AttributeError", fn, <<>>, so)

\* the Nodes that might be a good fit (lines 382-386)
candidate_nodes(v, c) ==
    IF v # NONE THEN <<value_to_node(v)>>
    ELSE LET type_to_values == choice_to_type_to_values(c)
         IN  [i \in 1..Len(type_to_values) |->
                 value_to_node(type_to_values[i][2])]

choice_types(nodes) == [i \in 1..Len(nodes) |-> nodes[i].choice_type]
names_of(nodes) == [i \in 1..Len(nodes) |-> nodes[i].name]

\* the kwargs of a validate call must be exactly the required ones
kwargs_dont_match(node, kw) ==
    LET required == node.required_additional_arguments_for_validation
    IN  \/ Len(required) # Cardinality(DOMAIN kw)
        \/ \E i \in 1..Len(required) : required[i] \notin DOMAIN kw

\* the variant that returns what the selected node returned as it is
selected_node_as_it_is(selected_node, candidates, fn, o, so, kw) ==
    call_node_function(selected_node, fn, o, so, kw)

\* lines 413-434: run the function on the selected node; after a validate
\* the 'type' of a node that has a choice_type is set and moved first
execute_selected_node(selected_node, candidates, fn, o, so, kw) ==
    LET r == call_node_function(selected_node, fn, o, so, kw)
    IN  IF ~is_ok(r) \/ fn # "validate" \/ ~has_choice_type(selected_node)
        THEN r
        ELSE IF is_dict(o) /\ dict_has(o, "type")
                /\ dict_get(o, "type") # Str(selected_node.choice_type)
        THEN ProgrammingError("the type was already given, but after validating it is not the value of the selected Node",
                              <<>>, r.so)
        ELSE IF dict_has(r.res, "type")
        THEN IF dict_get(r.res, "type") \notin
                    {Str(candidates[i].choice_type) : i \in 1..Len(candidates)}
             THEN ProgrammingError("after validating the type was already set, but is not one of the ones that was requested",
                                   <<>>, r.so)
             ELSE Ok(move_to_front(r.res, "type"), r.so)
        ELSE Ok(move_to_front(
                    dict_set(r.res, "type", Str(selected_node.choice_type)),
                    "type"), r.so)

\* the variant that does not look at the number of candidates
any_empty_dictionary(candidates, o) == is_dict(o) /\ Len(o.items) = 0

\* line 388: an empty dict where several Nodes are possible
submitted_an_empty_dictionary(candidates, o) ==
    Len(candidates) > 1 /\ is_dict(o) /\ Len(o.items) = 0

Ambiguous == [st |-> "ambiguous"]

\* execute_function_on_node up to the loop over the candidates (lines
\* 378-443): the outcome of the call, or Ambiguous when the loop is next
dispatch(fn, o, so, kw, v, c) ==
    LET candidates == candidate_nodes(v, c)
        mismatch == {i \in 1..Len(candidates) :
                        kwargs_dont_match(candidates[i], kw)}
        valid_types_to_value == choice_to_type_to_values(c)
        provided_type == dict_get(o, "type")
        tags == [i \in 1..Len(valid_types_to_value) |->
                    valid_types_to_value[i][1]]
    IN  IF (v = NONE) = (c = NONE)
        THEN ProgrammingError("the Node or group of nodes must be identified by either a 'value' or a 'choice' of values.",
                              <<>>, so)
        ELSE IF submitted_an_empty_dictionary(candidates, o)
        THEN InvalidParamsException("submitted an empty dictionary.",
                                    names_of(candidates), so)
        ELSE IF fn = "validate" /\ mismatch # {}
        THEN ProgrammingError("the kwargs don't match for node",
                              <<>>, so)
        ELSE IF Len(candidates) = 1
        THEN execute_selected_node(candidates[1], candidates, fn, o, so, kw)
        ELSE IF is_dict(o) /\ dict_has(o, "type")
        THEN IF provided_type.k \in {"list", "map"}
             \* provided_type not in valid_types_to_value: unhashable
             THEN Raise("TypeError", "unhashable type", <<>>, so)
             ELSE IF provided_type.k # "str"
                     \/ provided_type.s \notin SeqToSet(tags)
             THEN InvalidParamsException("the type is not valid.", tags, so)
             ELSE execute_selected_node(
                      value_to_node(
                          valid_types_to_value[IndexOf(tags, provided_type.s)][2]),
                      candidates, fn, o, so, kw)
        ELSE IF fn # "validate"
        THEN ProgrammingError("it is ambiguous which Node to use and the requested function was not 'validate'",
                              <<>>, so)
        ELSE Ambiguous

\* one round of the loop over the candidates (lines 452-476): what the
\* candidate returned or raised, with the copy of the stack_objects
try_candidate(candidate_node, o, so, kw) ==
    LET copy == copy_of_stack_objects(so)
        tmp == call_Field_validate(candidate_node.shortform_field, o, copy, kw)
        tmp_obj == shortform_conversion(candidate_node, o)
    IN  CASE is_dict(o) ->
                call_node_function(candidate_node, "validate", o, copy, kw)
          [] ~candidate_node.has_shortform ->
                InvalidParamsException("the value must be a dictionary",
                                       <<>>, copy)
          [] tmp.st = "raise" -> tmp
          [] ~is_dict(tmp_obj) ->
                ProgrammingError("the shortform conversion did not return a dict",
                                 <<>>, copy)
          [] OTHER ->
                call_node_function(candidate_node, "validate", tmp_obj, copy, kw)

\* an entry of successful_parsing_values
success_of(candidate_node, r) ==
    [node |-> candidate_node.name, res_obj |-> r.res,
     copy_of_stack_objects |-> r.so]

\* the variant that leaves the live stack_objects as they are when one
\* candidate has succeeded
decide_keeping_stack_objects(successes, candidates, so) ==
    IF Len(successes) = 1
    THEN Ok(move_to_front(
                dict_set(successes[1].res_obj, "type",
                         Str(value_to_node(successes[1].node).choice_type)),
                "type"), so)
    ELSE IF Len(successes) = 0
    THEN InvalidParamsException("no valid way to parse this value could be found.",
                                choice_types(candidates), so)
    ELSE InvalidParamsException(
             "the value is ambiguous and matched several possible types.",
             [i \in 1..Len(successes) |->
                 value_to_node(successes[i].node).choice_type], so)

\* lines 479-500: after the loop
decide(successes, candidates, so) ==
    IF Len(successes) = 1
    THEN LET candidate_node == value_to_node(successes[1].node)
         IN  Ok(move_to_front(
                    dict_set(successes[1].res_obj, "type",
                             Str(candidate_node.choice_type)), "type"),
                successes[1].copy_of_stack_objects)
    ELSE IF Len(successes) = 0
    THEN InvalidParamsException("no valid way to parse this value could be found.",
                                choice_types(candidates), so)
    ELSE InvalidParamsException(
             "the value is ambiguous and matched several possible types.",
             [i \in 1..Len(successes) |->
                 value_to_node(successes[i].node).choice_type], so)

\* the loop over the candidates, from candidate i on, and what follows it
candidates_loop(candidates, i, o, so, kw, successes) ==
    IF i > Len(candidates) THEN decide(successes, candidates, so)
    ELSE LET r == try_candidate(candidates[i], o, so, kw)
             so1 == after_candidate(so, r.so)
         IN  CASE r.st = "ok" ->
                    candidates_loop(candidates, i + 1, o, so1, kw,
                                    Append(successes,
                                           success_of(candidates[i], r)))
               [] is_invalid(r) ->
                    candidates_loop(candidates, i + 1, o, so1, kw, successes)
               \* any other exception leaves execute_function_on_node
               [] OTHER -> [r EXCEPT !.so = so1]

execute_function_on_node(fn, o, so, kw, v, c) ==
    LET d == call_dispatch(fn, o, so, kw, v, c)
    IN  IF d.st = "ambiguous"
        THEN candidates_loop(candidate_nodes(v, c), 1, o, so, kw, <<>>)
        ELSE d

run(op, a) ==
    CASE op = "Field_validate" -> Field_validate(a[1], a[2], a[3], a[4])
      [] op = "Node_validate" -> Node_validate(a[1], a[2], a[3], a[4])
      [] op = "node_function" -> node_function(a[1], a[2], a[3], a[4], a[5])
      [] op = "execute_function_on_node" ->
            execute_function_on_node(a[1], a[2], a[3], a[4], a[5], a[6])
      [] op = "dispatch" -> dispatch(a[1], a[2], a[3], a[4], a[5], a[6])
      [] op = "try_candidate" -> try_candidate(a[1], a[2], a[3], a[4])

-----------------------------------------------------------------------------
(* Raw values submitted to the entry points *)

\* the largest number of nodes and shortform constants of a generated tree
MaxSize == 3

M1(k1, v1) == Map(<< <<k1, v1>> >>)
M2(k1, v1, k2, v2) == Map(<< <<k1, v1>>, <<k2, v2>> >>)
M3(k1, v1, k2, v2, k3, v3) == Map(<< <<k1, v1>>, <<k2, v2>>, <<k3, v3>> >>)

\* the raw map with the 'type' of the node its keys belong to put in front
with_type(m) ==
    LET tag == IF dict_has(m, "val") THEN "constant"
               ELSE IF dict_has(m, "message") THEN "user_input"
               ELSE IF dict_has(m, "summands") THEN "sum"
               ELSE "constant_multiple"
    IN  Map(<< <<"type", Str(tag)>> >> \o m.items)

\* each map as it is and with its 'type'
tagged_and_untagged(S) == S \cup {with_type(m) : m \in S}

RECURSIVE raw_of_size(_)
RECURSIVE lists_of_size(_)

\* the sequences of raw values whose sizes add up to n
lists_of_size(n) ==
    IF n = 0 THEN {<<>>}
    ELSE UNION {{<<h>> \o t : h \in raw_of_size(j), t \in lists_of_size(n - j)}
                    : j \in 1..n}

\* the raw values of exactly n nodes
raw_of_size(n) ==
    IF n = 1
    THEN {Num(10), Str("m"), Map(<<>>)}
         \cup tagged_and_untagged({M1("val", Num(20)), M1("message", Str("m")),
                                   M1("summands", List(<<>>))})
    ELSE tagged_and_untagged(
             {M1("summands", List(l)) : l \in lists_of_size(n - 1)}
             \cup {M2("message", Str("m"), "on_error", c)
                        : c \in raw_of_size(n - 1)}
             \cup UNION {{M2("constant", a, "rest", b)
                            : a \in raw_of_size(i),
                              b \in raw_of_size(n - 1 - i)}
                                : i \in 1..(n - 2)})

generated_inputs == UNION {raw_of_size(n) : n \in 1..MaxSize}

\* every order of the keys of a map
key_orders(m) ==
    LET n == Len(m.items)
        bijections == {p \in [1..n -> 1..n] : \A i, j \in 1..n :
                                                 p[i] = p[j] => i = j}
    IN  {Map([i \in 1..n |-> m.items[p[i]]]) : p \in bijections}

\* the object of demos/01_parse.py and demos/03_evaluation.py
demo_01_obj ==
    M2("type", Str("sum"), "summands", List(<<
        M3("type", Str("constant_multiple"),
           "constant", M2("type", Str("sum"),
                          "summands", List(<<Num(10), Num(20)>>)),
           "rest", Num(42)),
        M2("message", Str("Please enter a number."),
           "on_error",
           M2("message", Str("Invalid number. Please try again."),
              "on_error",
              M3("message",
                 Str("One more try, or I will just pick the number 100."),
                 "on_error", Num(100),
                 "_comment",
                 Str("This comment is an optional field that does nothing."))))>>))

\* the object of demos/02_invalid_parse.py
demo_02_obj ==
    M3("type", Str("constant_multiple"),
       "constant",
       M2("type", Str("user_input"),
          "message",
          Str("Please enter a number. Nobody will ever read this message, because it's invalid!")),
       "rest", Num(42))

\* maps whose keys are then put in every order
maps_to_reorder ==
    {M3("type", Str("constant"), "_comment", Str("c"), "val", Num(10)),
     M2("_comment", Null, "val", Num(10)),
     M3("type", Str("constant_multiple"), "constant", Num(10),
        "rest", M1("message", Str("m"))),
     M3("_comment", Str("c"), "constant", M1("summands", List(<<Num(10)>>)),
        "rest", Num(20)),
     M3("message", Str("m"), "on_error", Num(5), "_comment", Null),
     M3("type", Str("sum"), "summands", List(<<Num(10)>>),
        "_comment", Str("c")),
     M2("val", Num(10), "foo", Num(1)),
     M3("type", Str("constant"), "val", Str("bad"), "foo", Num(1))}

\* further raw values: wrong and odd tags, wrong types, unknown keys,
\* numbers at and beyond the limits of a constant
special_inputs ==
    {Null, Bool(TRUE), Num(1000), Num(1001), List(<<Num(10)>>),
     M1("foo", Num(1)), M1("val", Null), M1("val", Bool(TRUE)),
     M1("val", Num(-1001)), M1("val", Str("m")),
     M2("message", Str("m"), "val", Num(10)),
     M1("type", Str("constant")), M1("type", Str("bogus")),
     M2("type", Str("bogus"), "val", Num(10)),
     M2("type", Str("sum"), "val", Num(10)),
     M2("type", Num(5), "val", Num(10)),
     M2("type", Null, "val", Num(10)),
     M2("type", List(<<Str("constant")>>), "val", Num(10)),
     M1("message", Num(10)), M1("summands", Num(10)),
     M1("summands", List(<<Bool(TRUE), Bool(TRUE)>>)),
     M2("message", Str("m"), "on_error", Null),
     M2("message", Str("m"), "on_error", Str("m")),
     M2("message", Str("m"), "on_error",
        M2("type", Str("sum"), "message", Str("x"))),
     M2("message", Str("m"), "on_error",
        M2("type", Str("user_input"), "message", Str("x"))),
     M2("constant", M1("summands", List(<<Num(1000), Num(10)>>)),
        "rest", Num(1)),
     M2("constant", M1("summands", List(<<Bool(TRUE), Num(10)>>)),
        "rest", Bool(TRUE)),
     M2("constant", Bool(TRUE), "rest", Num(1)),
     M2("constant", M2("constant", Num(100), "rest", Num(10)),
        "rest", M2("constant", Num(2), "rest", Num(1000))),
     M2("constant", M2("constant", Num(100), "rest", Num(20)),
        "rest", Num(1)),
     M2("constant",
        M1("summands", List(<<M1("message", Str("m"))>>)), "rest", Num(1)),
     M2("constant", Num(10),
        "rest", M2("constant", M1("message", Str("m")), "rest", Num(1))),
     \* the first summand of the object of demos/03_evaluation.py
     demo_01_obj.items[2][2].items[1],
     demo_01_obj, demo_02_obj}

\* what is submitted to validate_example_object
raw_inputs ==
    generated_inputs \cup special_inputs
    \cup UNION {key_orders(m) : m \in maps_to_reorder}

\* the stack_objects of validate_example_object
validate_stack_objects ==
    [node_trace |-> <<>>, current_object |-> Null, immutable_fields |-> <<>>]
\* the stack_objects of evaluate_numerical_node
evaluate_stack_objects ==
    [node_trace |-> <<"evaluating numerical_node">>, current_object |-> Null,
     immutable_fields |-> <<>>]
\* the stack_objects of a caller that is inside a node_trace_step and that
\* declares slots immutable
caller_stack_objects(immutable_fields) ==
    [node_trace |-> <<"caller">>,
     current_object |-> M1("val", Num(10)),
     visited |-> List(<<>>),
     immutable_fields |-> immutable_fields]

allow(b) == [allow_user_input_node |-> Arg(b)]

\* raw values for the nodes of the second grammar
second_grammar_inputs ==
    {Map(<<>>), Num(10), Null, Str("m"),
     M1("x", Num(1)), M1("x", Num(-1)), M1("x", Str("m")), M1("y", Num(2)),
     M2("x", Num(1), "y", Num(2)), M2("y", Num(2), "x", Num(-1)),
     M2("x", Num(1), "flag", Null), M2("flag", Bool(TRUE), "x", Num(1)),
     M2("x", Num(1), "y", Null),
     M2("items", List(<<Num(1), Num(2)>>), "x", Num(1)),
     M2("x", Num(1), "items", List(<<Str("m")>>)),
     M2("x", Num(1), "foo", Num(1)),
     M2("type", Str("narrow"), "x", Num(1)),
     M2("x", Num(-1), "type", Str("narrow")),
     M2("x", Num(1), "type", Str("wide")),
     M2("type", Str("solo"), "x", Num(1)), M1("type", Str("solo")),
     M2("type", Str("bogus"), "x", Num(1)),
     M2("type", Num(5), "x", Num(1)),
     M1("name", Str("n")), M2("size", Num(5), "name", Str("n")),
     M2("name", Str("n"), "legacy", Num(1)),
     M2("legacy", Str("old"), "size", Num(5)),
     M2("type", Str("plain"), "name", Str("n")),
     M2("name", Str("n"), "child", Map(<<>>)),
     M2("name", Str("n"), "child", Null),
     M2("child", M1("x", Num(2)), "name", Str("n")),
     M2("name", Str("n"), "child", M1("type", Str("narrow"))),
     M3("name", Str("n"), "foo", Num(1), "size", Str("bad"))}

\* a direct call of execute_function_on_node
call(fn, o, so, kw, v, c) ==
    [function |-> fn, obj |-> o, stack_objects |-> so, kwargs |-> kw,
     value |-> v, choice |-> c]

\* the calls of execute_function_on_node made by callers other than
\* validate_example_object and evaluate_numerical_node
direct_calls ==
    {call(fn, o, so, NoKwargs, r[1], r[2]) :
        fn \in {"validate", "evaluate"},
        o \in second_grammar_inputs,
        so \in {validate_stack_objects, caller_stack_objects(<<>>),
                caller_stack_objects(<<"visited">>),
                caller_stack_objects(<<"node_trace">>)},
        r \in {<<NONE, "pair">>, <<NONE, "single">>, <<"plain_node", NONE>>,
               <<"solo_node", NONE>>, <<"echo_node", NONE>>}}
    \cup
    \* as the fields 'constant' and 'rest' of a constant_multiple call it
    {call("validate", o, so, allow(b), NONE, "numerical_node") :
        o \in UNION {raw_of_size(n) : n \in 1..(MaxSize - 1)}
                \cup special_inputs,
        so \in {caller_stack_objects(<<>>),
                caller_stack_objects(<<"node_trace">>),
                caller_stack_objects(<<"current_object">>)},
        b \in {FALSE}}
    \cup
    {call("evaluate", o, validate_stack_objects, NoKwargs, NONE, "numerical_node") :
        o \in special_inputs \cup {Map(<<>>)}}
    \cup
    \* a reference to the node 'constant': values that are not dictionaries,
    \* and dictionaries without a 'type', with the 'type' of the node and
    \* with another 'type'
    {call("validate", o, validate_stack_objects, allow(TRUE), "constant", NONE) :
        o \in {Num(10), Num(1001), Bool(TRUE), Str("m"), Null, List(<<>>),
               M1("val", Num(10)),
               M2("type", Str("constant"), "val", Num(10)),
               M2("val", Num(10), "type", Str("constant")),
               M2("type", Str("sum"), "val", Num(10)),
               M2("type", Str("bogus"), "val", Num(10)),
               M2("type", Num(5), "val", Num(10))}}
    \cup
    \* kwargs that are not the required ones, no node or group, both
    {call("validate", o, validate_stack_objects, kw, r[1], r[2]) :
        o \in {M1("val", Num(10)), Map(<<>>)},
        kw \in {NoKwargs, [allow_user_input_node |-> Arg(TRUE), other |-> Arg(TRUE)]},
        r \in {<<NONE, "numerical_node">>, <<"constant", NONE>>,
               <<NONE, NONE>>, <<"constant", "numerical_node">>}}

-----------------------------------------------------------------------------
(* Object identity. The values above are compared by their content; here   *)
(* the dictionaries and lists of a validate call are the objects of a     *)
(* heap, known by their address, so that an assignment to an item of a    *)
(* dictionary or a list changes the one object that is written to. The    *)
(* heap also keeps what every candidate of a loop over the candidates was *)
(* handed (seen).                                                          *)

\* a reference to the dictionary or list at address a
Ref(a) == [k |-> "ref", a |-> a]
is_ref(v) == v.k = "ref"
empty_heap == [cells |-> <<>>, seen |-> <<>>]
\* the object a reference points at
cell(heap, ref) == heap.cells[ref.a]
\* isinstance(v, dict), isinstance(v, list)
refers_to_dict(heap, v) == is_ref(v) /\ cell(heap, v).k = "map"
refers_to_list(heap, v) == is_ref(v) /\ cell(heap, v).k = "list"

\* a new object: {}, [], OrderedDict(...), the dictionary a conversion builds
alloc(heap, c) ==
    [heap |-> [heap EXCEPT !.cells = Append(@, c)],
     v |-> Ref(Len(heap.cells) + 1)]
\* d[key] = v
setitem(heap, ref, key, v) ==
    [heap EXCEPT !.cells[ref.a] = dict_set(@, key, v)]
\* l.append(v)
list_append(heap, ref, v) ==
    [heap EXCEPT !.cells[ref.a] = List(Append(@.items, v))]
\* d.move_to_end(key, last=False)
move_to_end_first(heap, ref, key) ==
    [heap EXCEPT !.cells[ref.a] = move_to_front(@, key)]

RECURSIVE load(_, _)
RECURSIVE load_items(_, _, _)
RECURSIVE deref(_, _)

\* the items of an object from item i on are built and referred to
load_items(heap, c, i) ==
    IF i > Len(c.items) THEN alloc(heap, c)
    ELSE LET item == load(heap, IF c.k = "map" THEN c.items[i][2]
                                ELSE c.items[i])
         IN  load_items(item.heap,
                        [c EXCEPT !.items[i] =
                            IF c.k = "map" THEN <<c.items[i][1], item.v>>
                            ELSE item.v],
                        i + 1)

\* the value v as objects: every dictionary and list of it is a new object
load(heap, v) ==
    IF v.k \in {"map", "list"} THEN load_items(heap, v, 1)
    ELSE [heap |-> heap, v |-> v]

\* the content of v: every reference replaced by what it points at
deref(heap, v) ==
    IF ~is_ref(v) THEN v
    ELSE LET c == cell(heap, v)
         IN  [k |-> c.k,
              items |-> [i \in 1..Len(c.items) |->
                            IF c.k = "map"
                            THEN <<c.items[i][1], deref(heap, c.items[i][2])>>
                            ELSE deref(heap, c.items[i])]]

\* what a call did: the value it returned or the exception it raised, and
\* the heap as it left it
Returned(v, heap) == [st |-> "ok", v |-> v, heap |-> heap]
Raised(kind, heap) == [st |-> "raise", kind |-> kind, heap |-> heap]

\* a candidate of the loop is handed tmp_obj
candidate_is_handed(heap, v) ==
    [heap EXCEPT !.seen = Append(@, <<v, deref(heap, v)>>)]

\* Every call that can come back to its caller goes through run_on_heap,
\* the calls of the engine above included
RECURSIVE run_on_heap(_, _)
call_Field_validate_on_heap(field, v, heap, kw) ==
    run_on_heap("Field_validate", <<field, v, heap, kw>>)
call_Node_validate_on_heap(cls, v, heap, kw) ==
    run_on_heap("Node_validate", <<cls, v, heap, kw>>)
call_node_validate_on_heap(cls, v, heap, kw) ==
    run_on_heap("node_validate", <<cls, v, heap, kw>>)
call_validate_on_heap(o, heap, kw, v, c) ==
    run_on_heap("validate", <<o, heap, kw, v, c>>)
\* a field that refers to no node validates the content of the value
engine_Field_validate(field, val, kw) ==
    run_on_heap("engine", <<"Field_validate",
                            <<field, val, validate_stack_objects, kw>> >>)
\* evaluate reads the content of the tree and returns a number
engine_evaluate(o) ==
    run_on_heap("engine", <<"execute_function_on_node",
                            <<"evaluate", o, validate_stack_objects, NoKwargs,
                              NONE, "numerical_node">> >>)

RECURSIVE List_elements_on_heap(_, _, _, _, _, _)
RECURSIVE Node_validate_fields_on_heap(_, _, _, _, _, _)
RECURSIVE candidates_loop_on_heap(_, _, _, _, _, _)

\* List.helper_for_validation's loop, from element i on: res.append(...)
List_elements_on_heap(field, items, i, heap, kw, res) ==
    IF i > Len(items) THEN Returned(res, heap)
    ELSE
      LET element == items[i]
          check_for_primitive ==
              IF field.primitive.kind = NONE THEN FALSE
              ELSE IF field.value = NONE /\ field.choice = NONE THEN TRUE
              ELSE is_primitive(element)
          validated_element ==
              CASE check_for_primitive ->
                    call_Field_validate_on_heap(field.primitive, element, heap, kw)
                [] kwargs_key_error(kw, field.kwargs) ->
                    Raised("KeyError", heap)
                [] OTHER ->
                    call_validate_on_heap(element, heap,
                                     get_kwargs_to_use(kw, field.kwargs),
                                     field.value, field.choice)
      IN  IF validated_element.st = "raise" THEN validated_element
          ELSE List_elements_on_heap(
                   field, items, i + 1,
                   list_append(validated_element.heap, res,
                               validated_element.v),
                   kw, res)

\* Field.validate and the helper_for_validation of the field. A field that
\* refers to no node reads the value and returns a value of its own
Field_validate_on_heap(field, v, heap, kw) ==
    LET returned_by_the_field ==
            engine_Field_validate(field, deref(heap, v), kw)
        own_value == load(heap, returned_by_the_field.res)
        res == alloc(heap, List(<<>>))
    IN  CASE is_none(v) /\ ~(field.null /\ field.validation_accepts_nulls) ->
                IF field.null THEN Returned(Null, heap)
                ELSE Raised("InvalidParamsException", heap)
          [] field.kind \in {"Value", "Choice"}
                /\ kwargs_key_error(kw, field.kwargs) ->
                Raised("KeyError", heap)
          [] field.kind = "Value" ->
                call_validate_on_heap(v, heap, get_kwargs_to_use(kw, field.kwargs),
                                 field.value, NONE)
          [] field.kind = "Choice" ->
                call_validate_on_heap(v, heap, get_kwargs_to_use(kw, field.kwargs),
                                 NONE, field.choice)
          [] field.kind = "List" /\ ~refers_to_list(heap, v) ->
                Raised("InvalidParamsException", heap)
          [] field.kind = "List" /\ ~is_none(field.min_length)
                /\ Len(cell(heap, v).items) < field.min_length.n ->
                Raised("InvalidParamsException", heap)
          [] field.kind = "List" ->
                List_elements_on_heap(field, cell(heap, v).items, 1,
                                      res.heap, kw, res.v)
          [] field.kind = "PrimitiveValueOrGetter" /\ is_primitive(v) ->
                call_Field_validate_on_heap(field.primitive_field, v, heap, kw)
          [] field.kind = "PrimitiveValueOrGetter" ->
                call_Field_validate_on_heap(field.complex_field, v, heap, kw)
          [] returned_by_the_field.st = "raise" ->
                Raised(returned_by_the_field.kind, heap)
          [] OTHER -> Returned(own_value.v, own_value.heap)

\* the loop over the fields of Node.validate, from field i on:
\* res_dict[field_name] = ..., and the OrderedDict that is returned
Node_validate_fields_on_heap(cls, o, heap, kw, i, res_dict) ==
    IF i > Len(cls.fields)
    THEN LET res == alloc(heap, sorted_by_field_order(
                                    cls, cell(heap, res_dict)))
         IN  Returned(res.v, res.heap)
    ELSE
      LET field_name == cls.fields[i][1]
          field == cls.fields[i][2]
          validated == call_Field_validate_on_heap(
                           field, dict_get(cell(heap, o), field_name), heap, kw)
          stored == setitem(validated.heap, res_dict, field_name, validated.v)
          default_value == load(heap, default_value_of(field))
          defaulted == setitem(default_value.heap, res_dict, field_name,
                               default_value.v)
      IN  CASE field.dont_auto_validate ->
                Node_validate_fields_on_heap(cls, o, heap, kw, i + 1, res_dict)
            [] dict_has(cell(heap, o), field_name) ->
                CASE validated.st = "raise" -> validated
                  [] null_where_not_allowed(field, cell(stored, res_dict),
                                            field_name) ->
                        Raised("InvalidParamsException", stored)
                  [] OTHER ->
                        Node_validate_fields_on_heap(cls, o, stored, kw,
                                                     i + 1, res_dict)
            [] field.required -> Raised("InvalidParamsException", heap)
            [] ~field.dont_print_default ->
                IF null_where_not_allowed(field, cell(defaulted, res_dict),
                                          field_name)
                THEN Raised("InvalidParamsException", defaulted)
                ELSE Node_validate_fields_on_heap(cls, o, defaulted, kw,
                                                  i + 1, res_dict)
            [] OTHER ->
                Node_validate_fields_on_heap(cls, o, heap, kw, i + 1, res_dict)

\* Node.validate: obj = shortform_conversion(obj) binds a new dictionary
\* that holds the value, res_dict = {} another
Node_validate_on_heap(cls, v, heap, kw) ==
    LET tmp == engine_Field_validate(cls.shortform_field, deref(heap, v), kw)
        converted == alloc(heap, Map(<< <<"val", v>> >>))
        o == IF refers_to_dict(heap, v) THEN [heap |-> heap, v |-> v]
             ELSE converted
        keys == dict_keys(cell(o.heap, o.v))
        res_dict == alloc(o.heap, Map(<<>>))
    IN  CASE ~refers_to_dict(heap, v) /\ ~cls.has_shortform ->
                Raised("InvalidParamsException", heap)
          [] ~refers_to_dict(heap, v) /\ tmp.st = "raise" ->
                Raised(tmp.kind, heap)
          [] ~refers_to_dict(heap, v) /\ cls.shortform_conversion # "val" ->
                Raised("ProgrammingError", heap)
          [] \E j \in 1..Len(keys) : ~key_is_accepted(cls, keys[j]) ->
                Raised("InvalidParamsException", o.heap)
          [] OTHER ->
                Node_validate_fields_on_heap(cls, o.v, res_dict.heap, kw, 1,
                                             res_dict.v)

\* the variant that assigns the new 'constant' to the dictionary it was
\* handed
ConstantMultipleNode_validate_in_place(cls, o, heap, kw) ==
    LET r1 == call_Node_validate_on_heap(cls, o, heap, kw)
        r2 == engine_evaluate(
                  deref(r1.heap, dict_get(cell(r1.heap, r1.v), "constant")))
        constant == load(r1.heap, r2.res)
        r3 == call_validate_on_heap(constant.v, constant.heap,
                               [allow_user_input_node |-> Arg(FALSE)],
                               "constant", NONE)
    IN  IF r1.st = "raise" THEN r1
        ELSE IF ~is_ok(r2) THEN Raised(r2.kind, r1.heap)
        ELSE IF r3.st = "raise" THEN r3
        ELSE call_Node_validate_on_heap(
                 cls, o, setitem(r3.heap, o, "constant", r3.v), kw)

\* ConstantMultipleNode.validate: obj is bound to the dictionary that
\* super().validate returned, obj['constant'] = ... writes to that one
ConstantMultipleNode_validate_on_heap(cls, o, heap, kw) ==
    LET r1 == call_Node_validate_on_heap(cls, o, heap, kw)
        r2 == engine_evaluate(
                  deref(r1.heap, dict_get(cell(r1.heap, r1.v), "constant")))
        constant == load(r1.heap, r2.res)
        r3 == call_validate_on_heap(constant.v, constant.heap,
                               [allow_user_input_node |-> Arg(FALSE)],
                               "constant", NONE)
    IN  IF r1.st = "raise" THEN r1
        ELSE IF ~is_ok(r2) THEN Raised(r2.kind, r1.heap)
        ELSE IF r3.st = "raise" THEN r3
        ELSE call_Node_validate_on_heap(
                 cls, r1.v, setitem(r3.heap, r1.v, "constant", r3.v), kw)

\* UserInputNode.validate
UserInputNode_validate_on_heap(cls, o, heap, kw) ==
    LET r == call_Node_validate_on_heap(cls, o, heap, kw)
    IN  IF r.st = "raise" THEN r
        ELSE IF "allow_user_input_node" \notin DOMAIN kw
        THEN Raised("KeyError", r.heap)
        ELSE IF ~truthy(kw["allow_user_input_node"])
        THEN Raised("Exception", r.heap)
        ELSE r

\* selected_node.validate(selected_node, obj, stack_objects, kwargs)
node_validate_on_heap(cls, v, heap, kw) ==
    CASE cls.validate = "UserInputNode" ->
            UserInputNode_validate_on_heap(cls, v, heap, kw)
      [] cls.validate = "ConstantMultipleNode" ->
            ConstantMultipleNode_validate_on_heap(cls, v, heap, kw)
      [] OTHER -> call_Node_validate_on_heap(cls, v, heap, kw)

\* lines 413-434: the 'type' is written to the dictionary the node returned
execute_selected_node_on_heap(selected_node, candidates, v, heap, kw) ==
    LET r == call_node_validate_on_heap(selected_node, v, heap, kw)
    IN  IF r.st = "raise" \/ ~has_choice_type(selected_node) THEN r
        ELSE IF refers_to_dict(r.heap, v) /\ dict_has(cell(r.heap, v), "type")
                /\ dict_get(cell(r.heap, v), "type")
                        # Str(selected_node.choice_type)
        THEN Raised("ProgrammingError", r.heap)
        ELSE IF dict_has(cell(r.heap, r.v), "type")
                /\ dict_get(cell(r.heap, r.v), "type") \notin
                    {Str(candidates[i].choice_type) : i \in 1..Len(candidates)}
        THEN Raised("ProgrammingError", r.heap)
        ELSE IF dict_has(cell(r.heap, r.v), "type")
        THEN Returned(r.v, move_to_end_first(r.heap, r.v, "type"))
        ELSE Returned(r.v, move_to_end_first(
                               setitem(r.heap, r.v, "type",
                                       Str(selected_node.choice_type)),
                               r.v, "type"))

\* the loop over the candidates, from candidate i on, and what follows it:
\* every candidate is handed obj itself (tmp_obj = obj), or the dictionary
\* its shortform_conversion builds
candidates_loop_on_heap(candidates, i, v, heap, kw, successes) ==
    IF i > Len(candidates)
    THEN IF Len(successes) = 1
         THEN Returned(successes[1][2],
                       move_to_end_first(
                           setitem(heap, successes[1][2], "type",
                                   Str(successes[1][1].choice_type)),
                           successes[1][2], "type"))
         ELSE Raised("InvalidParamsException", heap)
    ELSE
      LET candidate_node == candidates[i]
          handed == candidate_is_handed(heap, v)
          tmp == engine_Field_validate(candidate_node.shortform_field, deref(heap, v), kw)
          tmp_obj == alloc(handed, Map(<< <<"val", v>> >>))
          r == CASE refers_to_dict(heap, v) ->
                        call_node_validate_on_heap(candidate_node, v, handed, kw)
                 [] ~candidate_node.has_shortform ->
                        Raised("InvalidParamsException", handed)
                 [] tmp.st = "raise" -> Raised(tmp.kind, handed)
                 [] candidate_node.shortform_conversion # "val" ->
                        Raised("ProgrammingError", handed)
                 [] OTHER ->
                        call_node_validate_on_heap(candidate_node, tmp_obj.v,
                                              tmp_obj.heap, kw)
      IN  CASE r.st = "ok" ->
                candidates_loop_on_heap(candidates, i + 1, v, r.heap, kw,
                                        Append(successes,
                                               <<candidate_node, r.v>>))
            [] r.kind = "InvalidParamsException" ->
                candidates_loop_on_heap(candidates, i + 1, v, r.heap, kw,
                                        successes)
            [] OTHER -> r

\* execute_function_on_node for the function 'validate'
validate_on_heap(o, heap, kw, v, c) ==
    LET candidates == candidate_nodes(v, c)
        valid_types_to_value == choice_to_type_to_values(c)
        tags == [i \in 1..Len(valid_types_to_value) |->
                    valid_types_to_value[i][1]]
        provided_type == dict_get(cell(heap, o), "type")
    IN  CASE (v = NONE) = (c = NONE) -> Raised("ProgrammingError", heap)
          [] Len(candidates) > 1 /\ refers_to_dict(heap, o)
                /\ Len(cell(heap, o).items) = 0 ->
                Raised("InvalidParamsException", heap)
          [] \E i \in 1..Len(candidates) :
                kwargs_dont_match(candidates[i], kw) ->
                Raised("ProgrammingError", heap)
          [] Len(candidates) = 1 ->
                execute_selected_node_on_heap(candidates[1], candidates, o,
                                              heap, kw)
          [] refers_to_dict(heap, o) /\ dict_has(cell(heap, o), "type") ->
                CASE is_ref(provided_type) -> Raised("TypeError", heap)
                  [] provided_type.k # "str"
                        \/ provided_type.s \notin SeqToSet(tags) ->
                        Raised("InvalidParamsException", heap)
                  [] OTHER ->
                        execute_selected_node_on_heap(
                            value_to_node(
                                valid_types_to_value[
                                    IndexOf(tags, provided_type.s)][2]),
                            candidates, o, heap, kw)
          [] OTHER -> candidates_loop_on_heap(candidates, 1, o, heap, kw, <<>>)

------------------------------------------------------------------------

run_on_heap(op, a) ==
    CASE op = "Field_validate" ->
            Field_validate_on_heap(a[1], a[2], a[3], a[4])
      [] op = "Node_validate" -> Node_validate_on_heap(a[1], a[2], a[3], a[4])
      [] op = "node_validate" -> node_validate_on_heap(a[1], a[2], a[3], a[4])
      [] op = "validate" -> validate_on_heap(a[1], a[2], a[3], a[4], a[5])
      [] op = "engine" -> run(a[1], a[2])

-----
(* The registry as the class statements and the registration calls build   *)
(* it. A dictionary of basics.py is a map; a class is known by the number  *)
(* of its class statement, 0 being basics.Node.                            *)

\* the largest number of class statements that are executed
MaxClasses == 2

\* the tables before anything is defined (basics.py 508-511, 624-625,
\* 741-751)
empty_registry ==
    [all_nodes |-> <<>>,
     value_to_node |-> Map(<<>>),
     value_to_choice |-> Map(<<>>),
     value_to_node_fields |-> Map(<<>>),
     choice_to_type_to_values |-> Map(<<>>),
     debug_referenced_values |-> {},
     debug_referenced_choices |-> {},
     finalize_has_been_called |-> FALSE,
     choice_to_description |-> {},
     documentation_target_to_page |-> {},
     stack_of_choices_for_documentation_hierarchy |-> <<>>]

\* what a registry operation did: the tables as it left them, and the
\* exception if it raised one
Done(reg) == [st |-> "ok", reg |-> reg]
Failed(kind, msg, reg) == [st |-> "raise", kind |-> kind, msg |-> msg, reg |-> reg]

\* register_that_a_value_was_referenced
register_that_a_value_was_referenced(reg, v) ==
    Done([reg EXCEPT !.debug_referenced_values = @ \cup {v}])

\* register_that_a_choice_was_referenced
register_that_a_choice_was_referenced(reg, c) ==
    Done([reg EXCEPT !.debug_referenced_choices = @ \cup {c}])

\* _register_that_a_node_was_defined: what it has written when it raises
\* stays written
register_that_a_node_was_defined(reg, cls, Meta) ==
    LET reg1 == [reg EXCEPT !.all_nodes = Append(@, cls)]
        reg2 == [reg1 EXCEPT !.value_to_node = dict_set(@, Meta.name, cls)]
        \* _choice_to_type_to_values is a defaultdict(dict)
        reg3 == [reg2 EXCEPT
                    !.value_to_choice =
                        dict_set(@, Meta.name,
                                 <<Meta.choice_of, Meta.choice_type>>),
                    !.choice_to_type_to_values =
                        IF dict_has(@, Meta.choice_of) THEN @
                        ELSE dict_set(@, Meta.choice_of, Map(<<>>))]
        type_to_value == dict_get(reg3.choice_to_type_to_values, Meta.choice_of)
    IN  CASE reg.finalize_has_been_called ->
                Failed("ProgrammingError",
                       "can't define any more Nodes! finalize() has already been called!",
                       reg)
          [] dict_has(reg1.value_to_node, Meta.name) ->
                Failed("ProgrammingError",
                       "can't define two nodes with the same name/value",
                       reg1)
          [] Meta.choice_of = NONE -> Done(reg2)
          [] Meta.choice_type = NONE ->
                Failed("ProgrammingError",
                       "if a 'choice_of' is given, a 'choice_type' must also be given.",
                       reg2)
          [] dict_has(type_to_value, Meta.choice_type) ->
                Failed("ProgrammingError", "can't define the type twice", reg3)
          [] OTHER ->
                Done([reg3 EXCEPT
                        !.choice_to_type_to_values =
                            dict_set(@, Meta.choice_of,
                                     dict_set(type_to_value, Meta.choice_type,
                                              Meta.name))])

\* _register_node_for_documentation; the last element of an empty list
\* raises IndexError
register_node_for_documentation(reg, Meta) ==
    LET stack == reg.stack_of_choices_for_documentation_hierarchy
    IN  CASE Meta.name \in reg.documentation_target_to_page ->
                Failed("ProgrammingError",
                       "this error is for debugging only. A duplicate value here should be impossible.",
                       reg)
          [] Meta.choice_of # NONE /\ stack = <<>> ->
                Failed("IndexError", "list index out of range", reg)
          [] Meta.choice_of # NONE /\ Meta.choice_of # stack[Len(stack)] ->
                Failed("ProgrammingError",
                       "this is not the currently active block of choices!",
                       reg)
          [] OTHER ->
                Done([reg EXCEPT !.documentation_target_to_page =
                                        @ \cup {Meta.name}])

\* register_choice_for_documentation
register_choice_for_documentation(reg, c) ==
    IF c \in reg.documentation_target_to_page
    THEN Failed("ProgrammingError",
                "this error is for debugging only. A duplicate value here should be impossible.",
                reg)
    ELSE Done([reg EXCEPT
                 !.documentation_target_to_page = @ \cup {c},
                 !.choice_to_description = @ \cup {c},
                 !.stack_of_choices_for_documentation_hierarchy =
                        Append(@, c)])

\* register_end_of_choices
register_end_of_choices(reg, c) ==
    LET stack == reg.stack_of_choices_for_documentation_hierarchy
    IN  CASE stack = <<>> ->
                Failed("IndexError", "list index out of range", reg)
          [] stack[Len(stack)] # c ->
                Failed("ProgrammingError", "wrong choice.", reg)
          [] OTHER ->
                Done([reg EXCEPT
                        !.stack_of_choices_for_documentation_hierarchy =
                            SubSeq(@, 1, Len(@) - 1)])

\* execute_function_on_node, as far as it touches the tables. Lines
\* 383-386 look the candidates up: _value_to_node is a dict, and an unknown
\* value raises KeyError; _choice_to_type_to_values is a defaultdict(dict),
\* and an unknown choice is given an empty dict that stays in the table.
\* Without candidates the call ends at line 409, 441 or 483; with
\* candidates it goes on to the Nodes, which only read the tables
\* (_value_to_node at 412, _value_to_node_fields in Node.validate), and
\* ends as the Nodes decide.
execute_function_on_node_lookup(reg, fn, o, v, c) ==
    LET known == dict_has(reg.choice_to_type_to_values, c)
        reg1 == IF known THEN reg
                ELSE [reg EXCEPT !.choice_to_type_to_values =
                                    dict_set(@, c, Map(<<>>))]
    IN  CASE (v = NONE) = (c = NONE) ->
                Failed("ProgrammingError",
                       "the Node or group of nodes must be identified by either a 'value' or a 'choice' of values.",
                       reg)
          [] v # NONE /\ ~dict_has(reg.value_to_node, v) ->
                Failed("KeyError", v, reg)
          [] v # NONE -> Done(reg)
          [] known /\ Len(dict_get(reg.choice_to_type_to_values, c).items) > 0 ->
                Done(reg1)
          [] is_dict(o) /\ dict_has(o, "type") ->
                Failed("InvalidParamsException", "the type is not valid.", reg1)
          [] fn # "validate" ->
                Failed("ProgrammingError",
                       "it is ambiguous which Node to use and the requested function was not 'validate'",
                       reg1)
          [] OTHER ->
                Failed("InvalidParamsException",
                       "no valid way to parse this value could be found.",
                       reg1)


\* the keys of a dictionary, as a set
key_set(m) == SeqToSet(dict_keys(m))

\* the variant of finalize that does not ask for the documentation of
\* the choices
finalize_without_documentation(reg) ==
    LET sealed == [reg EXCEPT !.finalize_has_been_called = TRUE]
    IN  CASE ~(reg.debug_referenced_values \subseteq key_set(reg.value_to_node)) ->
                Failed("ProgrammingError",
                       "the value was referenced but never defined", sealed)
          [] ~(reg.debug_referenced_choices
                    \subseteq key_set(reg.choice_to_type_to_values)) ->
                Failed("ProgrammingError",
                       "the choice was referenced but never defined", sealed)
          [] key_set(reg.choice_to_type_to_values)
                \cap key_set(reg.value_to_node) # {} ->
                Failed("ProgrammingError",
                       "there are both a choice and a value called", sealed)
          [] OTHER -> Done(sealed)

\* finalize: the flag is set before anything is looked at. For each choice
\* in turn, the values are compared with it and then its documentation is
\* looked for.
finalize(reg) ==
    LET sealed == [reg EXCEPT !.finalize_has_been_called = TRUE]
        choices == dict_keys(reg.choice_to_type_to_values)
        bad == {i \in 1..Len(choices) :
                    \/ choices[i] \in key_set(reg.value_to_node)
                    \/ choices[i] \notin reg.choice_to_description}
        first == choices[CHOOSE i \in bad : \A j \in bad : i <= j]
    IN  CASE ~(reg.debug_referenced_values \subseteq key_set(reg.value_to_node)) ->
                Failed("ProgrammingError",
                       "the value was referenced but never defined", sealed)
          [] ~(reg.debug_referenced_choices
                    \subseteq key_set(reg.choice_to_type_to_values)) ->
                Failed("ProgrammingError",
                       "the choice was referenced but never defined", sealed)
          [] bad = {} -> Done(sealed)
          [] first \in key_set(reg.value_to_node) ->
                Failed("ProgrammingError",
                       "there are both a choice and a value called", sealed)
          [] OTHER ->
                Failed("ProgrammingError",
                       "missing documentation for choice", sealed)

\* an attribute that a class Meta does not have
Unset == [k |-> "unset"]

\* class Meta of a class statement. Every class statement of the model has
\* a Meta of its own, as every class statement of nodesExample.py has. The
\* attributes that line 48-57 look for with hasattr are Unset, a List or
\* a Str; a name, a choice_of or a choice_type that is not there is NONE,
\* and overwrites_existing_fields is the list that getattr gives.
NodeMeta(is_an_abstract_class, name, choice_of, choice_type, overwrites_existing_fields, required, quietly_drop, documentation) ==
    [is_an_abstract_class |-> is_an_abstract_class,
     name |-> name,
     choice_of |-> choice_of,
     choice_type |-> choice_type,
     overwrites_existing_fields |-> overwrites_existing_fields,
     required_additional_arguments_for_validation |-> required,
     quietly_drop_superfluous_fields |-> quietly_drop,
     documentation_name |-> documentation,
     documentation_description |-> documentation]

\* a Field object made in a class body: Field.__init__ gives it the next
\* order_of_creation; declared_in tells the objects apart
declared_field(order_of_creation, cls) ==
    [order_of_creation |-> order_of_creation, declared_in |-> cls]

\* a class: the class it extends, the Field attributes of its body in the
\* order of the body, and its Meta
NodeSubclass(base, dict, Meta) == [base |-> base, dict |-> dict, Meta |-> Meta]

\* basics.Node
NodeClass ==
    NodeSubclass(-1, <<>>,
                 NodeMeta(TRUE, NONE, NONE, NONE, <<>>, Unset, Unset, Unset))

\* cls.mro() without object: the class, then what it extends, up to Node
RECURSIVE mro(_, _)
mro(cls, cs) ==
    IF cls.base = 0 THEN <<cls, NodeClass>>
    ELSE <<cls>> \o mro(cs[cls.base], cs)

reversed(seq) == [i \in 1..Len(seq) |-> seq[Len(seq) + 1 - i]]

\* the name of a field as it is (a variant of the one below)
keep_trailing_underscore(k) == k

\* lines 61-64: one trailing underscore is removed from the name
strip_trailing_underscore(k) ==
    IF Len(k) > 0 /\ SubSeq(k, Len(k), Len(k)) = "_"
    THEN SubSeq(k, 1, Len(k) - 1)
    ELSE k

\* the Field attributes of the classes of a sequence, in the order in which
\* the loops of lines 47 and 59 see them
RECURSIVE field_attributes(_)
field_attributes(superclasses) ==
    IF superclasses = <<>> THEN <<>>
    ELSE Head(superclasses).dict \o field_attributes(Tail(superclasses))

\* lines 59-70 over all the superclasses: the dict_of_fields, or the name
\* that raises
already_defined(k) == [k |-> "already defined", field |-> k]

RECURSIVE merge_fields(_, _, _, _)
merge_fields(attributes, i, dict_of_fields, overwrites_existing_fields) ==
    IF i > Len(attributes) THEN dict_of_fields
    ELSE LET k == strip_trailing_underscore(attributes[i][1])
         IN  IF /\ dict_has(dict_of_fields, k)
                /\ k \notin SeqToSet(overwrites_existing_fields)
             THEN already_defined(k)
             ELSE merge_fields(attributes, i + 1,
                               dict_set(dict_of_fields, k, attributes[i][2]),
                               overwrites_existing_fields)

\* lines 72-73: the list of the items, sorted by the order_of_creation of
\* the Field that is in the dictionary (the sort is stable)
sort_by_order_of_creation(items) ==
    LET n == Len(items)
        earlier(j, i) ==
            \/ items[j][2].order_of_creation < items[i][2].order_of_creation
            \/ /\ items[j][2].order_of_creation = items[i][2].order_of_creation
               /\ j < i
        rank(i) == 1 + Cardinality({j \in 1..n : earlier(j, i)})
    IN  [p \in 1..n |-> items[CHOOSE i \in 1..n : rank(i) = p]]

\* the value of the superclass that comes last among those that set it
RECURSIVE most_recent(_, _)
most_recent(values, unset) ==
    IF values = <<>> THEN unset
    ELSE IF values[Len(values)] # Unset THEN values[Len(values)]
    ELSE most_recent(SubSeq(values, 1, Len(values) - 1), unset)

\* the lists of the superclasses that set one, one after the other
RECURSIVE accumulated(_)
accumulated(values) ==
    IF values = <<>> THEN <<>>
    ELSE (IF Head(values) = Unset THEN <<>> ELSE Head(values).items)
         \o accumulated(Tail(values))

\* lines 77-81: the Meta of the class after its definition
inherited_Meta(cls, cs) ==
    LET superclasses == reversed(mro(cls, cs))
        n == Len(superclasses)
    IN  [cls.Meta EXCEPT
            !.required_additional_arguments_for_validation =
                most_recent([i \in 1..n |-> superclasses[i].Meta
                                .required_additional_arguments_for_validation],
                            List(<<>>)),
            !.quietly_drop_superfluous_fields =
                List(accumulated([i \in 1..n |-> superclasses[i].Meta
                                    .quietly_drop_superfluous_fields])),
            !.documentation_name =
                most_recent([i \in 1..n |->
                                superclasses[i].Meta.documentation_name], Null),
            !.documentation_description =
                most_recent([i \in 1..n |->
                                superclasses[i].Meta.documentation_description],
                            Null)]

\* NodeSubclassDeclarationWatcher.__init__ for the class numbered c: what
\* it raises, the tables and the Meta as it leaves them. Every class but
\* Node has more than two classes in its mro.
NodeSubclassDeclarationWatcher_init(reg, cs, cls, c) ==
    LET registered == register_that_a_node_was_defined(reg, c, cls.Meta)
        dict_of_fields ==
            merge_fields(field_attributes(reversed(mro(cls, cs))), 1,
                         Map(<<>>), cls.Meta.overwrites_existing_fields)
        list_of_fields == sort_by_order_of_creation(dict_of_fields.items)
        reg1 == [registered.reg EXCEPT
                    !.value_to_node_fields =
                        dict_set(@, cls.Meta.name, list_of_fields)]
        Meta1 == inherited_Meta(cls, cs)
        documented == register_node_for_documentation(reg1, Meta1)
    IN  CASE cls.Meta.is_an_abstract_class ->
                [st |-> "ok", reg |-> reg, Meta |-> cls.Meta]
          [] registered.st = "raise" ->
                [st |-> "raise", kind |-> registered.kind,
                 msg |-> registered.msg, reg |-> registered.reg,
                 Meta |-> cls.Meta]
          [] dict_of_fields.k = "already defined" ->
                [st |-> "raise", kind |-> "ProgrammingError",
                 msg |-> "field is already defined",
                 reg |-> registered.reg, Meta |-> cls.Meta]
          [] Meta1.documentation_name = Null
                \/ Meta1.documentation_description = Null ->
                [st |-> "raise", kind |-> "ProgrammingError",
                 msg |-> "these values must be set. Don't forget to add documentation!",
                 reg |-> reg1, Meta |-> Meta1]
          [] documented.st = "raise" ->
                [st |-> "raise", kind |-> documented.kind,
                 msg |-> documented.msg, reg |-> documented.reg,
                 Meta |-> Meta1]
          [] OTHER ->
                [st |-> "ok", reg |-> documented.reg, Meta |-> Meta1]

-----------------------------------------------------------------------------
(* The state machine: an entry point is called, execute_function_on_node   *)
(* runs up to its loop, the loop tries one candidate per step, the call    *)
(* returns or raises, and the entry point finishes.                        *)

NoOutcome == [st |-> "none"]
NoTree == [k |-> "none"]

Init ==
    /\ pc = "idle"
    /\ entry = NONE
    /\ function = NONE
    /\ obj = Null
    /\ kwargs = NoKwargs
    /\ value = NONE
    /\ choice = NONE
    /\ stack_objects = validate_stack_objects
    /\ candidate_idx = 0
    /\ successful_parsing_values = <<>>
    /\ outcome = NoOutcome
    /\ entry_stack_objects = validate_stack_objects
    /\ tried = <<>>
    /\ prev = NoTree
    /\ registry = empty_registry
    /\ classes = <<>>
    /\ field_creation_order_counter = 0
    /\ registry_outcome = NoOutcome
    /\ field_input = NoOutcome
    /\ field_outcome = NoOutcome
    /\ heap_call = NoOutcome
    /\ heap_outcome = NoOutcome

\* validate_example_object, lines 28-50: a value that is not a dictionary
\* raises before stack_objects is assigned, and the handler of line 73
\* then reads the unassigned stack_objects
begin_validate_example_object(o, again) ==
    /\ entry' = "validate_example_object"
    /\ obj' = o
    /\ prev' = again
    /\ function' = "validate"
    /\ value' = NONE
    /\ choice' = "numerical_node"
    /\ kwargs' = allow(TRUE)
    /\ stack_objects' = validate_stack_objects
    /\ entry_stack_objects' = validate_stack_objects
    /\ candidate_idx' = 0
    /\ successful_parsing_values' = <<>>
    /\ tried' = <<>>
    /\ IF is_dict(o)
       THEN pc' = "called" /\ outcome' = NoOutcome
       ELSE /\ pc' = "done"
            /\ outcome' = Raise("UnboundLocalError", "stack_objects", <<>>,
                                validate_stack_objects)

ValidateExampleObject ==
    /\ pc = "idle"
    /\ \E o \in raw_inputs : begin_validate_example_object(o, NoTree)
    /\ UNCHANGED <<registry_vars, field_vars, heap_vars>>

\* validate_example_object applied to the tree it returned
ValidateAgain ==
    /\ pc = "done"
    /\ entry = "validate_example_object"
    /\ prev = NoTree
    /\ is_ok(outcome)
    /\ begin_validate_example_object(outcome.res, outcome.res)
    /\ UNCHANGED <<registry_vars, field_vars, heap_vars>>

\* evaluate_numerical_node applied to a validated tree
EvaluateNumericalNode ==
    /\ pc = "done"
    /\ entry = "validate_example_object"
    /\ is_ok(outcome)
    /\ entry' = "evaluate_numerical_node"
    /\ obj' = outcome.res
    /\ prev' = NoTree
    /\ function' = "evaluate"
    /\ value' = NONE
    /\ choice' = "numerical_node"
    /\ kwargs' = NoKwargs
    /\ stack_objects' = evaluate_stack_objects
    /\ entry_stack_objects' = evaluate_stack_objects
    /\ candidate_idx' = 0
    /\ successful_parsing_values' = <<>>
    /\ tried' = <<>>
    /\ pc' = "called"
    /\ outcome' = NoOutcome
    /\ UNCHANGED <<registry_vars, field_vars, heap_vars>>

begin_execute_function_on_node(c, again) ==
    /\ entry' = "execute_function_on_node"
    /\ obj' = c.obj
    /\ prev' = again
    /\ function' = c.function
    /\ value' = c.value
    /\ choice' = c.choice
    /\ kwargs' = c.kwargs
    /\ stack_objects' = c.stack_objects
    /\ entry_stack_objects' = c.stack_objects
    /\ candidate_idx' = 0
    /\ successful_parsing_values' = <<>>
    /\ tried' = <<>>
    /\ pc' = "called"
    /\ outcome' = NoOutcome

ExecuteFunctionOnNode ==
    /\ pc = "idle"
    /\ \E c \in direct_calls : begin_execute_function_on_node(c, NoTree)
    /\ UNCHANGED <<registry_vars, field_vars, heap_vars>>

\* the same validate call applied to the tree it returned
ExecuteAgain ==
    /\ pc = "done"
    /\ entry = "execute_function_on_node"
    /\ function = "validate"
    /\ prev = NoTree
    /\ is_ok(outcome)
    /\ begin_execute_function_on_node(
           call(function, outcome.res, entry_stack_objects, kwargs, value,
                choice),
           outcome.res)
    /\ UNCHANGED <<registry_vars, field_vars, heap_vars>>

\* where a finished execute_function_on_node goes back to
after_return == IF entry = "validate_example_object" THEN "returned" ELSE "done"

\* execute_function_on_node, lines 378-443
Dispatch ==
    /\ pc = "called"
    /\ \E d \in {call_dispatch(function, obj, stack_objects, kwargs, value,
                              choice)} :
           IF d.st = "ambiguous"
           THEN /\ pc' = "loop"
                /\ candidate_idx' = 1
                /\ UNCHANGED <<outcome, stack_objects>>
           ELSE /\ pc' = after_return
                /\ outcome' = d
                /\ stack_objects' = d.so
                /\ UNCHANGED candidate_idx
    /\ UNCHANGED <<entry, function, obj, kwargs, value, choice,
                   successful_parsing_values, entry_stack_objects, tried, prev>>
    /\ UNCHANGED <<registry_vars, field_vars, heap_vars>>

\* one round of the loop of lines 446-478
TryCandidate ==
    /\ pc = "loop"
    /\ candidate_idx <= Len(candidate_nodes(value, choice))
    /\ \E candidate_node \in {candidate_nodes(value, choice)[candidate_idx]} :
       \E r \in {call_try_candidate(candidate_node, obj, stack_objects,
                                    kwargs)} :
       \E so1 \in {after_candidate(stack_objects, r.so)} :
           /\ tried' = Append(tried, candidate_node.choice_type)
           /\ stack_objects' = so1
           /\ IF is_ok(r)
              THEN /\ successful_parsing_values' =
                        Append(successful_parsing_values,
                               success_of(candidate_node, r))
                   /\ candidate_idx' = candidate_idx + 1
                   /\ UNCHANGED <<pc, outcome>>
              ELSE IF is_invalid(r)
              THEN /\ candidate_idx' = candidate_idx + 1
                   /\ UNCHANGED <<pc, outcome, successful_parsing_values>>
              ELSE /\ pc' = after_return
                   /\ outcome' = [r EXCEPT !.so = so1]
                   /\ UNCHANGED <<candidate_idx, successful_parsing_values>>
    /\ UNCHANGED <<entry, function, obj, kwargs, value, choice,
                   entry_stack_objects, prev>>
    /\ UNCHANGED <<registry_vars, field_vars, heap_vars>>

\* lines 479-500, after the loop
Decide ==
    /\ pc = "loop"
    /\ candidate_idx > Len(candidate_nodes(value, choice))
    /\ LET r == decide(successful_parsing_values,
                       candidate_nodes(value, choice), stack_objects)
       IN  /\ outcome' = r
           /\ stack_objects' = r.so
    /\ pc' = after_return
    /\ UNCHANGED <<entry, function, obj, kwargs, value, choice, candidate_idx,
                   successful_parsing_values, entry_stack_objects, tried, prev>>
    /\ UNCHANGED <<registry_vars, field_vars, heap_vars>>

\* detailed_error_handler_with_node_trace: an InvalidParamsException is
\* raised again as one, anything else as a ProgrammingError
detailed_error_handler_with_node_trace(e, so) ==
    IF is_invalid(e)
    THEN InvalidParamsException(e.msg, e.args, so)
    ELSE ProgrammingError(e.msg, e.args, so)

\* validate_example_object, lines 51-73. Every dictionary a Node returns
\* is an OrderedDict, which is all that _recursive_dict_check asks for.
finish_validate_example_object(r, so) ==
    IF ~is_ok(r) THEN detailed_error_handler_with_node_trace(r, so)
    ELSE IF Len(so.node_trace) # 0
    THEN detailed_error_handler_with_node_trace(
             ProgrammingError("the node_trace is imbalanced.", <<>>, so), so)
    ELSE r

FinishValidateExampleObject ==
    /\ pc = "returned"
    /\ outcome' = finish_validate_example_object(outcome, stack_objects)
    /\ pc' = "done"
    /\ UNCHANGED <<entry, function, obj, kwargs, value, choice, stack_objects,
                   candidate_idx, successful_parsing_values,
                   entry_stack_objects, tried, prev>>
    /\ UNCHANGED <<registry_vars, field_vars, heap_vars>>

Next ==
    \/ ValidateExampleObject
    \/ ValidateAgain
    \/ EvaluateNumericalNode
    \/ ExecuteFunctionOnNode
    \/ ExecuteAgain
    \/ Dispatch
    \/ TryCandidate
    \/ Decide
    \/ FinishValidateExampleObject

Spec == Init /\ [][Next]_all_vars

-----------------------------------------------------------------------------
(* The registry as a state machine: class statements are executed, values  *)
(* and choices are referenced by the Fields that are made, blocks of       *)
(* choices are opened and closed for the documentation, and finalize is    *)
(* called.                                                                 *)

\* the names that Fields refer to
ReferencedValues == {"n2"}
ReferencedChoices == {"g"}

\* the blocks of choices that are documented
DocumentedChoices == {"g"}

\* a class statement: the class it extends, the names of the Field
\* attributes of its body, and its Meta
class_statement(base, own, Meta) == [base |-> base, own |-> own, Meta |-> Meta]

\* a Meta of a node that is documented
documented_node(name, choice_of, choice_type, overwrites_existing_fields) ==
    NodeMeta(FALSE, name, choice_of, choice_type, overwrites_existing_fields,
             Unset, Unset, Str("d"))

\* the class statements that are executed, for the classes that can be
\* extended
class_statements(bases) ==
    {class_statement(b, s[1], s[2]) : b \in bases, s \in {
        \* an abstract class with two fields
        <<<<"a", "b">>,
          NodeMeta(TRUE, NONE, NONE, NONE, <<>>,
                   List(<<"allow_user_input_node">>), List(<<"legacy">>),
                   Str("d"))>>,
        \* a member of the group g with a field a
        <<<<"a">>, documented_node("n1", "g", "t", <<>>)>>,
        \* the same, and a may replace a field of the same name
        <<<<"a">>, documented_node("n1", "g", "t", <<"a">>)>>,
        \* the field a under the name a_
        <<<<"a_">>, documented_node("n1", "g", "t", <<>>)>>,
        \* another member of g with the same tag
        <<<<"c">>, documented_node("n2", "g", "t", <<>>)>>,
        \* another member of g with another tag, a new field first
        <<<<"c", "a_">>, documented_node("n2", "g", "u", <<"a">>)>>,
        \* a node of no group, with the name of the group
        <<<<>>, documented_node("g", NONE, NONE, <<>>)>>,
        \* a member of g without a tag
        <<<<>>, documented_node("n2", "g", NONE, <<>>)>>,
        \* a member of g that has no documentation of its own
        <<<<>>, NodeMeta(FALSE, "n2", "g", "u", <<>>, Unset, Unset, Unset)>>}}

\* what the last operation was and how it ended
operation_outcome(op, arg, r) ==
    [op |-> op, arg |-> arg, st |-> r.st,
     kind |-> IF r.st = "ok" THEN NONE ELSE r.kind,
     msg |-> IF r.st = "ok" THEN NONE ELSE r.msg]

\* a class statement: the body makes the Fields, then the metaclass looks
\* at the class. A class whose definition raised is bound to no name and
\* cannot be extended; the message of the exception is kept with it.
ClassStatement ==
    /\ Len(classes) < MaxClasses
    /\ \E stmt \in class_statements(
                    {0} \cup {i \in 1..Len(classes) : classes[i].created}) :
       \E cls \in {NodeSubclass(
                    stmt.base,
                    [i \in 1..Len(stmt.own) |->
                        <<stmt.own[i],
                          declared_field(field_creation_order_counter + i - 1,
                                         Len(classes) + 1)>>],
                    stmt.Meta)} :
       \E r \in {NodeSubclassDeclarationWatcher_init(registry, classes, cls,
                                                     Len(classes) + 1)} :
           /\ registry' = r.reg
           /\ classes' = Append(classes,
                                [base |-> cls.base, dict |-> cls.dict,
                                 Meta |-> r.Meta, created |-> r.st = "ok",
                                 raised |-> IF r.st = "ok" THEN NONE
                                            ELSE r.msg])
           /\ field_creation_order_counter' =
                    field_creation_order_counter + Len(stmt.own)
           /\ registry_outcome' = operation_outcome("class", stmt.Meta.name, r)
    /\ UNCHANGED <<vars, field_vars, heap_vars>>

\* a Field that refers to a node is made (fields.py 25, 113)
RegisterThatAValueWasReferenced ==
    /\ \E v \in ReferencedValues :
       \E r \in {register_that_a_value_was_referenced(registry, v)} :
           /\ registry' = r.reg
           /\ registry_outcome' = operation_outcome("value_referenced", v, r)
    /\ UNCHANGED <<classes, field_creation_order_counter, vars, field_vars, heap_vars>>

\* a Field that refers to a group is made (fields.py 64, 115)
RegisterThatAChoiceWasReferenced ==
    /\ \E c \in ReferencedChoices :
       \E r \in {register_that_a_choice_was_referenced(registry, c)} :
           /\ registry' = r.reg
           /\ registry_outcome' = operation_outcome("choice_referenced", c, r)
    /\ UNCHANGED <<classes, field_creation_order_counter, vars, field_vars, heap_vars>>

RegisterChoiceForDocumentation ==
    /\ \E c \in DocumentedChoices :
       \E r \in {register_choice_for_documentation(registry, c)} :
           /\ registry' = r.reg
           /\ registry_outcome' = operation_outcome("choice", c, r)
    /\ UNCHANGED <<classes, field_creation_order_counter, vars, field_vars, heap_vars>>

RegisterEndOfChoices ==
    /\ \E c \in DocumentedChoices :
       \E r \in {register_end_of_choices(registry, c)} :
           /\ registry' = r.reg
           /\ registry_outcome' = operation_outcome("end_of_choices", c, r)
    /\ UNCHANGED <<classes, field_creation_order_counter, vars, field_vars, heap_vars>>

Finalize ==
    /\ \E r \in {finalize(registry)} :
           /\ registry' = r.reg
           /\ registry_outcome' = operation_outcome("finalize", NONE, r)
    /\ UNCHANGED <<classes, field_creation_order_counter, vars, field_vars, heap_vars>>

\* a call of execute_function_on_node once finalize has been called, with
\* the name of a node or of a group, known to the tables or not
ExecuteFunctionOnNodeLookup ==
    /\ registry.finalize_has_been_called
    /\ \E fn \in {"validate", "evaluate"},
          o \in {M1("x", Num(1)), M1("type", Str("t"))},
          ref \in {<<v, NONE>> : v \in ReferencedValues
                                        \cup key_set(registry.value_to_node)}
                  \cup {<<NONE, c>> : c \in ReferencedChoices
                            \cup key_set(registry.choice_to_type_to_values)} :
       \E r \in {execute_function_on_node_lookup(registry, fn, o,
                                                  ref[1], ref[2])} :
           /\ registry' = r.reg
           /\ registry_outcome' =
                    operation_outcome("execute_function_on_node",
                                      <<fn, ref[1], ref[2]>>, r)
    /\ UNCHANGED <<classes, field_creation_order_counter, vars, field_vars, heap_vars>>


RegistryNext ==
    \/ ClassStatement
    \/ RegisterThatAValueWasReferenced
    \/ RegisterThatAChoiceWasReferenced
    \/ RegisterChoiceForDocumentation
    \/ RegisterEndOfChoices
    \/ Finalize

RegistrySpec == Init /\ [][RegistryNext]_all_vars

-----------------------------------------------------------------------------
(* simplify_stack_objects_current_object_for_display, which            *)
(* detailed_error_handler_with_node_trace calls on the stack_objects of *)
(* the failure, applied to values of growing size and nesting.         *)

max_dict_field_count == 10
max_list_length == 3
max_string_length == 100
depth == 2

RECURSIVE repeat(_, _)
\* s * n
repeat(s, n) == IF n = 0 THEN "" ELSE s \o repeat(s, n - 1)

RECURSIVE rec_shortener(_, _)
\* _rec_shortener
rec_shortener(o, remaining_depth) ==
    CASE is_dict(o) /\ Len(o.items) > max_dict_field_count ->
            Str("[a dictionary with " \o ToString(Len(o.items))
                \o " fields, which is too many to display here]")
      [] is_dict(o) ->
            Map([i \in 1..Len(o.items) |->
                    <<o.items[i][1],
                      IF remaining_depth <= 0 THEN Str("...")
                      ELSE rec_shortener(o.items[i][2], remaining_depth - 1)>>])
      [] o.k = "list" ->
            List([i \in 1..(IF Len(o.items) > max_list_length
                            THEN max_list_length ELSE Len(o.items)) |->
                    rec_shortener(o.items[i], remaining_depth - 1)]
                 \o (IF Len(o.items) > max_list_length
                     THEN <<Str("[" \o ToString(Len(o.items) - max_list_length)
                                \o " additional elements]")>>
                     ELSE <<>>))
      [] o.k = "str" /\ Len(o.s) > max_string_length ->
            Str(SubSeq(o.s, 1, max_string_length - 3) \o "...")
      [] OTHER -> o

RECURSIVE joined(_, _)
\* separator.join(strings)
joined(strings, separator) ==
    IF Len(strings) = 0 THEN ""
    ELSE IF Len(strings) = 1 THEN strings[1]
    ELSE strings[1] \o separator \o joined(Tail(strings), separator)

RECURSIVE json_dumps(_, _)
\* json.dumps(o, indent=4), for what is nested level deep. The strings of
\* the model hold no character that json writes with a backslash.
json_dumps(o, level) ==
    LET inner == "\n" \o repeat("    ", level + 1)
        outer == "\n" \o repeat("    ", level)
    IN  CASE o.k = "null" -> "null"
          [] o.k = "bool" -> IF o.b THEN "true" ELSE "false"
          [] o.k = "num" -> ToString(o.n)
          [] o.k = "str" -> "\"" \o o.s \o "\""
          [] o.k = "list" /\ Len(o.items) = 0 -> "[]"
          [] o.k = "list" ->
                "[" \o inner
                \o joined([i \in 1..Len(o.items) |->
                              json_dumps(o.items[i], level + 1)],
                          "," \o inner)
                \o outer \o "]"
          [] o.k = "map" /\ Len(o.items) = 0 -> "{}"
          [] o.k = "map" ->
                "{" \o inner
                \o joined([i \in 1..Len(o.items) |->
                              "\"" \o o.items[i][1] \o "\": "
                              \o json_dumps(o.items[i][2], level + 1)],
                          "," \o inner)
                \o outer \o "}"

\* stack_objects['current_object'] becomes the text of the shortened value
simplify_stack_objects_current_object_for_display(so) ==
    [so EXCEPT !.current_object =
                    Str(json_dumps(rec_shortener(@, depth), 0))]

\* how deep the values that are displayed are nested
MaxNesting == 4

\* a list of n times the value, a map of n keys with the value
list_of(n, v) == List([i \in 1..n |-> v])
map_of(n, v) == Map([i \in 1..n |-> <<"k" \o ToString(i), v>>])

RECURSIVE nested_values(_)
\* the values of at most n levels of lists and maps
nested_values(n) ==
    IF n = 0
    THEN {Null, Bool(TRUE), Num(10), Str("m"),
          Str(repeat("x", max_string_length)),
          Str(repeat("x", max_string_length + 1))}
    ELSE nested_values(n - 1)
         \cup {List(<<>>), Map(<<>>)}
         \cup {list_of(len, v) : len \in {1, max_list_length + 1},
                                 v \in nested_values(n - 1)}
         \cup {map_of(len, v) : len \in {1, max_dict_field_count + 1},
                                v \in nested_values(n - 1)}

\* values with lists of every length up to the limit and beyond it, and
\* maps of as many fields as are displayed
displayed_values ==
    nested_values(MaxNesting)
    \cup {list_of(len, v) : len \in 2..(max_list_length + 2),
                            v \in nested_values(1)}
    \cup {map_of(max_dict_field_count, v) : v \in nested_values(1)}

\* the stack_objects of a failure at the value
failure_stack_objects(v) ==
    [node_trace |-> <<>>, current_object |-> v, immutable_fields |-> <<>>]

SimplifyForDisplay ==
    /\ pc = "idle"
    /\ \E v \in displayed_values :
        /\ entry_stack_objects' = failure_stack_objects(v)
        /\ stack_objects' =
                simplify_stack_objects_current_object_for_display(
                    failure_stack_objects(v))
    /\ entry' = "simplify_stack_objects_current_object_for_display"
    /\ pc' = "done"
    /\ UNCHANGED <<function, obj, kwargs, value, choice, candidate_idx,
                   successful_parsing_values, outcome, tried, prev>>
    /\ UNCHANGED <<registry_vars, field_vars, heap_vars>>

DisplayNext == SimplifyForDisplay

DisplaySpec == Init /\ [][DisplayNext]_all_vars


\* the registry operations together with the calls of
\* execute_function_on_node that follow finalize
RegistryAndCallsNext ==
    \/ ClassStatement
    \/ RegisterThatAValueWasReferenced
    \/ RegisterThatAChoiceWasReferenced
    \/ RegisterChoiceForDocumentation
    \/ RegisterEndOfChoices
    \/ Finalize
    \/ ExecuteFunctionOnNodeLookup

RegistryAndCallsSpec == Init /\ [][RegistryAndCallsNext]_all_vars

-----------------------------------------------------------------------------
(* The validate method of a Mapping and of a MultipleChoiceSelection,      *)
(* called with a raw value, and once more with the value it returned.      *)

\* the largest number of items of a raw dictionary or list
MaxItems == 2

\* the sequences of at most n elements of S
sequences_up_to(S, n) == UNION {[1..m -> S] : m \in 0..n}

\* the raw keys
raw_keys == {"1", " 1", "01", "+1", "-1", "10", "9", "1_0", "x", "", "a", "b", "B"}

\* the dictionaries with those keys; a dictionary has a key once
raw_mappings ==
    {Map(items) :
        items \in {s \in sequences_up_to(raw_keys \X {Num(1), Str("s")}, MaxItems) :
                        \A i, j \in 1..Len(s) : i # j => s[i][1] # s[j][1]}}
    \cup {Null, Num(1), Str("1"), List(<<>>)}

\* Mappings with the keys of an IntegerAsString, of an IntegerAsString with
\* bounds, and of a String
mapping_fields ==
    {Mapping(key, Integer(Null, Null, FALSE, Null), FALSE, Null) :
        key \in {IntegerAsString(Null, Null, FALSE, Null),
                 IntegerAsString(Num(0), Num(9), FALSE, Null),
                 String(Null, Null, FALSE, Null, FALSE)}}

selection_fields == {MultipleChoiceSelection(<<"a", "b">>)}

raw_selections ==
    {List(s) : s \in sequences_up_to({Str("a"), Str("b"), Str("c"), Str(""),
                                      Num(0), Null}, MaxItems)}
    \cup {Null, Str("a"), Str("b"), Str("c"), Str(""), Num(5), Num(0),
          Bool(FALSE), Map(<<>>)}

\* a call of validate: the Field, the value and whether the value is one
\* that the Field returned; no call is started while one is looked at
field_call(field, val, again) == [field |-> field, val |-> val, again |-> again]

ValidateMapping ==
    /\ field_input = NoOutcome
    /\ \E field \in mapping_fields, val \in raw_mappings :
           /\ field_input' = field_call(field, val, FALSE)
           /\ field_outcome' = call_Field_validate(field, val,
                                                   validate_stack_objects,
                                                   NoKwargs)
    /\ UNCHANGED <<vars, registry_vars, heap_vars>>

ValidateSelection ==
    /\ field_input = NoOutcome
    /\ \E field \in selection_fields, val \in raw_selections :
           /\ field_input' = field_call(field, val, FALSE)
           /\ field_outcome' = call_Field_validate(field, val,
                                                   validate_stack_objects,
                                                   NoKwargs)
    /\ UNCHANGED <<vars, registry_vars, heap_vars>>

\* Float fields without bounds, with one bound and with both, among them
\* the Float of ConstantNode.val
float_fields ==
    {Float(min, max, FALSE, Null) :
        min \in {Null, Num(-1000), Num(0)}, max \in {Null, Num(0), Num(1000)}}

\* raw values for a Float: the floats that are no number, numbers at and
\* beyond the bounds, and values that are no number
raw_floats ==
    {NaN, Infinity, MinusInfinity,
     Num(-1001), Num(-1000), Num(-1), Num(0), Num(1), Num(1000), Num(1001),
     Bool(TRUE), Bool(FALSE), Str("1"), Null, List(<<Num(1)>>), Map(<<>>)}

ValidateFloat ==
    /\ field_input = NoOutcome
    /\ \E field \in float_fields, val \in raw_floats :
           /\ field_input' = field_call(field, val, FALSE)
           /\ field_outcome' = call_Field_validate(field, val,
                                                   validate_stack_objects,
                                                   NoKwargs)
    /\ UNCHANGED <<vars, registry_vars, heap_vars>>

\* the value that a call returned is validated by the same Field
ValidateFieldAgain ==
    /\ field_outcome # NoOutcome
    /\ is_ok(field_outcome)
    /\ ~field_input.again
    /\ field_input' = field_call(field_input.field, field_outcome.res, TRUE)
    /\ field_outcome' = call_Field_validate(field_input.field,
                                            field_outcome.res,
                                            validate_stack_objects, NoKwargs)
    /\ UNCHANGED <<vars, registry_vars, heap_vars>>

FieldNext ==
    \/ ValidateMapping
    \/ ValidateSelection
    \/ ValidateFloat
    \/ ValidateFieldAgain

FieldSpec == Init /\ [][FieldNext]_all_vars

-----------------------------------------------------------------------------
(* validate calls on objects: the raw value is built on an empty heap and  *)
(* validated as a numerical_node or as one of the nodes, and the tree that *)
(* was returned is validated once more where it lies                       *)

raw_objects == special_inputs \cup UNION {raw_of_size(n) : n \in 1..MaxSize}

ValidateOnHeap ==
    /\ heap_call = NoOutcome
    /\ \E raw \in raw_objects, b \in BOOLEAN,
          r \in {<<NONE, "numerical_node">>, <<"constant_multiple", NONE>>} :
       \E o \in {load(empty_heap, raw)} :
           /\ heap_call' = [raw |-> raw, obj |-> o.v, heap |-> o.heap,
                            kwargs |-> allow(b), value |-> r[1],
                            choice |-> r[2], again |-> FALSE]
           /\ heap_outcome' = call_validate_on_heap(o.v, o.heap, allow(b),
                                               r[1], r[2])
    /\ UNCHANGED <<vars, registry_vars, field_vars>>

ValidateOnHeapAgain ==
    /\ heap_call # NoOutcome
    /\ ~heap_call.again
    /\ heap_outcome.st = "ok"
    /\ \E heap \in {[heap_outcome.heap EXCEPT !.seen = <<>>]} :
           /\ heap_call' = [heap_call EXCEPT
                                !.raw = deref(heap, heap_outcome.v),
                                !.obj = heap_outcome.v,
                                !.heap = heap,
                                !.again = TRUE]
           /\ heap_outcome' = call_validate_on_heap(heap_outcome.v, heap,
                                               heap_call.kwargs,
                                               heap_call.value,
                                               heap_call.choice)
    /\ UNCHANGED <<vars, registry_vars, field_vars>>

HeapNext ==
    \/ ValidateOnHeap
    \/ ValidateOnHeapAgain

HeapSpec == Init /\ [][HeapNext]_all_vars

-----------------------------------------------------------------------------
(* Properties of the validation engine *)

\* execute_function_on_node has returned or raised and its caller has not
\* looked at the outcome yet
returned ==
    \/ entry = "validate_example_object" /\ pc = "returned"
    \/ entry \in {"execute_function_on_node", "evaluate_numerical_node"}
        /\ pc = "done"

\* the loop over the candidates has run to its end and the call is over
loop_finished ==
    returned /\ candidate_idx > Len(candidate_nodes(value, choice))

\* the map without one of its keys
without_key(m, key) == Map(SelectSeq(m.items, LAMBDA it : it[1] # key))

\* the keys a validated map of node cls can have, in the order they must have
canonical_keys(cls) ==
    (IF cls.choice_of # NONE THEN <<"type">> ELSE <<>>)
        \o ordered_field_names(cls)

\* m lists keys of node cls in the canonical order, and the tag of cls if
\* the node belongs to a group
is_in_field_order(m, cls) ==
    /\ dict_keys(m) = SelectSeq(canonical_keys(cls), LAMBDA n : dict_has(m, n))
    /\ (cls.choice_of # NONE) =>
            (dict_has(m, "type") /\ dict_get(m, "type") = Str(cls.choice_type))

RECURSIVE every_map_is_in_field_order(_)
\* every map of the tree lists its keys in the canonical order of some node
every_map_is_in_field_order(v) ==
    CASE v.k = "list" ->
            \A i \in 1..Len(v.items) : every_map_is_in_field_order(v.items[i])
      [] v.k = "map" ->
            /\ \E i \in 1..Len(all_nodes) : is_in_field_order(v, all_nodes[i])
            /\ \A i \in 1..Len(v.items) :
                    every_map_is_in_field_order(v.items[i][2])
      [] OTHER -> TRUE

RECURSIVE one_map_reordered(_)
\* the tree, and the tree with the keys of one of its maps in another order
one_map_reordered(v) ==
    CASE v.k = "map" ->
            key_orders(v) \cup
            UNION {{Map([v.items EXCEPT ![i] = <<v.items[i][1], w>>])
                        : w \in one_map_reordered(v.items[i][2])}
                            : i \in 1..Len(v.items)}
      [] v.k = "list" ->
            {v} \cup
            UNION {{List([v.items EXCEPT ![i] = w])
                        : w \in one_map_reordered(v.items[i])}
                            : i \in 1..Len(v.items)}
      [] OTHER -> {v}

\* C1: Field order invariant. When a validate call returns, the keys of the
\* returned map, and of every map in it, are in the declaration order of
\* the fields of its node, with 'type' first for a node of a group,
\* whatever order the keys of the raw map had; the raw value with the keys
\* of any of its maps in another order is accepted too and gives the same
\* ordered result.
C1_FieldOrder ==
    (returned /\ function = "validate" /\ is_ok(outcome)) =>
        /\ \E i \in 1..Len(candidate_nodes(value, choice)) :
                is_in_field_order(outcome.res,
                                  candidate_nodes(value, choice)[i])
        /\ every_map_is_in_field_order(outcome.res)
        /\ \A m \in one_map_reordered(obj) :
             \E r \in {call_execute_function_on_node(
                           function, m, entry_stack_objects, kwargs, value,
                           choice)} :
                 is_ok(r) /\ r.res = outcome.res

\* a raw map with three keys and its 'type' last was validated
C1_KeysOutOfOrder ==
    /\ returned /\ function = "validate" /\ is_ok(outcome)
    /\ is_dict(obj) /\ Len(obj.items) = 3 /\ obj.items[3][1] = "type"
    /\ dict_keys(outcome.res)[1] = "type"

\* C2: Idempotence. When a tree that validate returned is validated again
\* by the same call (same group, same kwargs, same stack_objects at the
\* start), the call succeeds and returns a tree that is equal to it, in
\* content and in the order of its keys.
C2_Idempotence ==
    (pc = "done" /\ prev # NoTree) => (is_ok(outcome) /\ outcome.res = prev)

\* a validated constant_multiple, whose constant part was evaluated and
\* validated again, went through validate_example_object a second time
C2_ConstantMultipleAgain ==
    /\ pc = "done" /\ prev # NoTree /\ is_ok(outcome)
    /\ entry = "validate_example_object"
    /\ dict_get(prev, "type") = Str("constant_multiple")

\* the slots of the stack_objects that are copied for a candidate
copied_slots(so) == (DOMAIN so) \ SeqToSet(so.immutable_fields)

same_in_copied_slots(so1, so2) ==
    /\ DOMAIN so1 = DOMAIN so2
    /\ \A k \in copied_slots(so2) : so1[k] = so2[k]

\* C3: Context isolation in backtracking. While the candidates are tried,
\* and when the loop ends with no or with several successes, every slot of
\* the live stack_objects that is not named in immutable_fields is as it
\* was before the first candidate was tried; the call then raises an
\* InvalidParamsException, and the whole live stack_objects is as it was
\* unless a slot named in immutable_fields is one that is altered in place.
C3_ContextIsolation ==
    /\ (pc = "loop") =>
            same_in_copied_slots(stack_objects, entry_stack_objects)
    /\ (loop_finished /\ Len(successful_parsing_values) # 1) =>
            /\ is_invalid(outcome)
            /\ same_in_copied_slots(stack_objects, entry_stack_objects)
            /\ same_in_copied_slots(outcome.so, entry_stack_objects)
            /\ (SeqToSet(entry_stack_objects.immutable_fields)
                    \cap altered_in_place = {}) =>
                    (stack_objects = entry_stack_objects
                        /\ outcome.so = entry_stack_objects)

\* the first candidate has failed and has left frames in the node_trace of
\* its copy of the stack_objects
C3_FailedCandidateWrote ==
    /\ pc = "loop" /\ candidate_idx = 2 /\ successful_parsing_values = <<>>
    /\ "node_trace" \notin SeqToSet(entry_stack_objects.immutable_fields)
    /\ \E r \in {call_try_candidate(candidate_nodes(value, choice)[1], obj,
                                    entry_stack_objects, kwargs)} :
            is_invalid(r) /\ r.so.node_trace # entry_stack_objects.node_trace

\* C4: Backtracking with exactly one success. When the loop over the
\* candidates ends with one success, every candidate has been tried, in the
\* order of registration; the call returns the result of the candidate that
\* succeeded with 'type' set to its choice_type and put first; the live
\* stack_objects are the copy that candidate worked on; and the candidate
\* that succeeded is the only one that validates the value, every other one
\* raising an InvalidParamsException.
C4_ExactlyOneSuccess ==
    (loop_finished /\ Len(successful_parsing_values) = 1) =>
        \E win \in {successful_parsing_values[1]} :
        \E candidates \in {candidate_nodes(value, choice)} :
            /\ is_ok(outcome)
            /\ dict_keys(outcome.res)[1] = "type"
            /\ dict_get(outcome.res, "type")
                    = Str(value_to_node(win.node).choice_type)
            /\ without_key(outcome.res, "type")
                    = without_key(win.res_obj, "type")
            /\ stack_objects = win.copy_of_stack_objects
            /\ outcome.so = win.copy_of_stack_objects
            /\ tried = choice_types(candidates)
            /\ \A i \in 1..Len(candidates) :
                 \E r \in {call_try_candidate(candidates[i], obj,
                                              entry_stack_objects, kwargs)} :
                     IF candidates[i].name = win.node
                     THEN /\ is_ok(r)
                          /\ r.res = win.res_obj
                          /\ same_in_copied_slots(win.copy_of_stack_objects,
                                                  r.so)
                     ELSE is_invalid(r)

\* one candidate has succeeded and has changed its copy of the stack_objects
C4_WinnerChangedContext ==
    /\ loop_finished /\ Len(successful_parsing_values) = 1
    /\ is_ok(outcome)
    /\ stack_objects # entry_stack_objects

\* C5: Backtracking with zero or several successes. When the candidates of
\* a group have been tried on a value and the number of candidates that
\* validate it is not one, the call raises an InvalidParamsException that
\* names the choice_types of all candidates if none validates it, and of
\* the candidates that validate it otherwise.
C5_ZeroOrSeveralSuccesses ==
    (returned /\ tried # <<>>) =>
        \E candidates \in {candidate_nodes(value, choice)} :
        \E succeeded \in
            {SelectSeq(candidates,
                       LAMBDA c : is_ok(call_try_candidate(
                                            c, obj, entry_stack_objects,
                                            kwargs)))} :
            (Len(succeeded) # 1) =>
                /\ is_invalid(outcome)
                /\ outcome.args = IF Len(succeeded) = 0
                                  THEN choice_types(candidates)
                                  ELSE choice_types(succeeded)

\* C6: Tagged dispatch. When a call for a group gets a map with a 'type'
\* key: if the type is a choice_type of the group no candidate is tried and
\* a successful validate returns a map of that type; if it is not, the call
\* raises an InvalidParamsException that lists the choice_types of the
\* group. This holds for a group of any number of members.
C6_TaggedDispatch ==
    (/\ returned /\ value = NONE /\ choice # NONE
     /\ is_dict(obj) /\ dict_has(obj, "type")
     /\ ~(function = "validate"
            /\ \E i \in 1..Len(candidate_nodes(value, choice)) :
                 kwargs_dont_match(candidate_nodes(value, choice)[i], kwargs)))
    =>
        \E tags \in {choice_types(candidate_nodes(value, choice))} :
        \E tag \in {dict_get(obj, "type")} :
            IF tag \in {Str(tags[i]) : i \in 1..Len(tags)}
            THEN /\ tried = <<>>
                 /\ (function = "validate" /\ is_ok(outcome)) =>
                        dict_get(outcome.res, "type") = tag
            ELSE is_invalid(outcome) /\ outcome.args = tags

\* C7: Empty-map shortcut. An empty map submitted where more than one
\* candidate is possible raises an InvalidParamsException that names every
\* candidate, no candidate has been tried and the stack_objects are as they
\* were; where one candidate is possible, the empty map is handed to that
\* Node, and the call returns or raises what the Node does; kwargs that are
\* not the required ones of that Node raise the ProgrammingError of every
\* validate call before the Node is reached.
C7_EmptyMapShortcut ==
    (returned /\ obj = Map(<<>>) /\ (value = NONE) # (choice = NONE)) =>
        \E candidates \in {candidate_nodes(value, choice)} :
            IF Len(candidates) > 1
            THEN /\ is_invalid(outcome)
                 /\ outcome.msg = "submitted an empty dictionary."
                 /\ outcome.args = names_of(candidates)
                 /\ tried = <<>>
                 /\ stack_objects = entry_stack_objects
                 /\ outcome.so = entry_stack_objects
            ELSE IF function = "validate"
                    /\ kwargs_dont_match(candidates[1], kwargs)
            THEN /\ tried = <<>>
                 /\ outcome.st = "raise"
                 /\ outcome.kind = "ProgrammingError"
                 /\ outcome.msg # "submitted an empty dictionary."
            ELSE \E r \in {call_node_function(candidates[1], function, obj,
                                              entry_stack_objects, kwargs)} :
                 /\ tried = <<>>
                 /\ is_ok(r) <=> is_ok(outcome)
                 /\ (is_ok(r) /\ function = "validate") =>
                        without_key(outcome.res, "type")
                            = without_key(r.res, "type")
                 /\ ~is_ok(r) =>
                        (outcome = r
                           /\ outcome.msg # "submitted an empty dictionary.")

\* an empty map was submitted where several candidates are possible
C7_EmptyMapForSeveral ==
    /\ returned /\ obj = Map(<<>>) /\ (value = NONE) # (choice = NONE)
    /\ Len(candidate_nodes(value, choice)) > 1
    /\ is_invalid(outcome)

\* C8: A function other than 'validate' that is called for a group of
\* several Nodes on a value without a 'type' always raises a
\* ProgrammingError, whatever the value is.
C8_NonValidateWithoutTag ==
    (/\ returned /\ function # "validate" /\ value = NONE /\ choice # NONE
     /\ Len(candidate_nodes(value, choice)) > 1
     /\ ~(is_dict(obj) /\ dict_has(obj, "type")))
    => (outcome.st = "raise" /\ outcome.kind = "ProgrammingError")

\* a validate call on a map that goes to one Node without a loop over
\* candidates: the only candidate, whose 'type' the map has if it has one
\* and the Node is of a group, or the member the 'type' names
goes_to_one_node ==
    /\ returned /\ function = "validate" /\ is_dict(obj) /\ tried = <<>>
    /\ (value = NONE) # (choice = NONE)
    /\ \E candidates \in {candidate_nodes(value, choice)} :
         /\ ~(Len(candidates) > 1 /\ obj = Map(<<>>))
         /\ \A i \in 1..Len(candidates) :
                ~kwargs_dont_match(candidates[i], kwargs)
         /\ \/ /\ Len(candidates) = 1
               /\ (candidates[1].choice_of # NONE /\ dict_has(obj, "type")) =>
                    dict_get(obj, "type") = Str(candidates[1].choice_type)
            \/ /\ dict_has(obj, "type")
               /\ dict_get(obj, "type")
                    \in {Str(candidates[i].choice_type)
                            : i \in 1..Len(candidates)}

\* the Node of goes_to_one_node
the_node ==
    IF Len(candidate_nodes(value, choice)) = 1
    THEN candidate_nodes(value, choice)[1]
    ELSE value_to_node(
             CHOOSE n \in node_names :
                /\ value_to_node(n).choice_of = choice
                /\ Str(value_to_node(n).choice_type) = dict_get(obj, "type"))

\* the keys of the map that the node must reject
unknown_keys(node, m) ==
    {k \in SeqToSet(dict_keys(m)) :
        /\ k \notin SeqToSet(ordered_field_names(node))
        /\ k \notin SeqToSet(node.quietly_drop_superfluous_fields)
        /\ ~(k = "type" /\ node.choice_of # NONE)}

\* C9: Unknown keys. A map with a key that is neither the name of a field of
\* the Node, nor one that is dropped quietly, nor 'type' for a Node of a
\* group makes Node.validate raise an InvalidParamsException that names
\* such a key and lists the name of every field of the Node, with the
\* stack_objects as they were given (no field has been validated); the
\* call raises the same. A map without such a key is not rejected for its
\* keys by this Node, and a key that is dropped quietly is in no result.
C9_UnknownKeys ==
    goes_to_one_node =>
        \E node \in {the_node} :
        \E r \in {call_Node_validate(node, obj, entry_stack_objects,
                                     kwargs)} :
        \E unknown \in {unknown_keys(node, obj)} :
            /\ (unknown # {}) =>
                 /\ is_invalid(r)
                 /\ r.msg = "is not a valid field name"
                 /\ r.args[1] \in unknown
                 /\ Tail(r.args) = ordered_field_names(node)
                 /\ r.so = entry_stack_objects
                 /\ is_invalid(outcome)
                 /\ outcome.msg = r.msg
                 /\ outcome.args = r.args
            \* a Node further down may still reject a key of its own map,
            \* which leaves frames in the node_trace
            /\ (unknown = {}) =>
                 ~(/\ r.st = "raise"
                   /\ r.msg = "is not a valid field name"
                   /\ r.so.node_trace = entry_stack_objects.node_trace)
            /\ \A k \in SeqToSet(node.quietly_drop_superfluous_fields) :
                 /\ is_ok(r) => ~dict_has(r.res, k)
                 /\ is_ok(outcome) => ~dict_has(outcome.res, k)

\* a map with a 'type' was submitted for a Node that belongs to no group
C9_TypeForNodeWithoutGroup ==
    /\ goes_to_one_node
    /\ the_node.choice_of = NONE
    /\ dict_has(obj, "type")
    /\ is_invalid(outcome)
    /\ outcome.msg = "is not a valid field name"

\* C10: Required and default fields. For a map whose keys the Node accepts,
\* Node.validate goes through the fields in the order of declaration. The
\* first field that is present and whose validation raises, or that is
\* absent and required (no default and not nullable), decides the
\* exception: what the field raised, or an InvalidParamsException for the
\* missing field. With no such field the result holds, for every field,
\* the validated value if the key is present, the default (what the
\* function returns, if the default is a function) if it is absent, and no
\* key if it is absent and the field has dont_print_default. No result has
\* null in a field that is not nullable. A Node that does not override
\* validate makes the call return this result, and raise this exception.
C10_RequiredAndDefaultFields ==
    (goes_to_one_node /\ unknown_keys(the_node, obj) = {}) =>
        \E node \in {the_node} :
        \E r \in {call_Node_validate(node, obj, entry_stack_objects,
                                     kwargs)} :
        \E validated \in
            {[i \in 1..Len(node.fields) |->
                IF dict_has(obj, node.fields[i][1])
                THEN call_Field_validate(
                         node.fields[i][2], dict_get(obj, node.fields[i][1]),
                         entry_stack_objects, kwargs)
                ELSE NoOutcome]} :
        \E failing \in
            {{i \in 1..Len(node.fields) :
                IF dict_has(obj, node.fields[i][1])
                THEN validated[i].st = "raise"
                ELSE is_none(node.fields[i][2].default)
                        /\ ~node.fields[i][2].null}} :
            /\ (failing = {}) => is_ok(r)
            /\ \A i \in failing :
                 (\A j \in failing : i <= j) =>
                    IF dict_has(obj, node.fields[i][1])
                    THEN /\ r.st = "raise"
                         /\ r.kind = validated[i].kind
                         /\ r.msg = validated[i].msg
                    ELSE /\ is_invalid(r)
                         /\ r.msg = "missing value for the required field"
                         /\ r.args = <<node.fields[i][1]>>
            /\ is_ok(r) =>
                 \A i \in 1..Len(node.fields) :
                 \E name \in {node.fields[i][1]} :
                 \E field \in {node.fields[i][2]} :
                    /\ dict_has(obj, name) =>
                         (dict_has(r.res, name)
                            /\ dict_get(r.res, name) = validated[i].res)
                    /\ (~dict_has(obj, name) /\ ~field.dont_print_default) =>
                         /\ dict_has(r.res, name)
                         /\ dict_get(r.res, name) =
                                IF field.default.k = "callable"
                                THEN field.default.produces
                                ELSE field.default
                    /\ (~dict_has(obj, name) /\ field.dont_print_default) =>
                         ~dict_has(r.res, name)
                    /\ (dict_has(r.res, name) /\ ~field.null) =>
                         ~is_none(dict_get(r.res, name))
            /\ (node.validate \in {"Node", "VisitingNode"}) =>
                 /\ is_ok(r) <=> is_ok(outcome)
                 /\ is_ok(r) => without_key(outcome.res, "type") = r.res
                 /\ ~is_ok(r) =>
                        (outcome.kind = r.kind /\ outcome.msg = r.msg
                            /\ outcome.args = r.args)

\* a map without 'y' and 'items' was validated by wide_node, whose default
\* for 'items' is a function
C10_DefaultsFilled ==
    /\ goes_to_one_node
    /\ the_node.name = "wide_node"
    /\ ~dict_has(obj, "y") /\ ~dict_has(obj, "items")
    /\ is_ok(outcome)
    /\ dict_get(outcome.res, "y") = Num(7)
    /\ dict_get(outcome.res, "items") = List(<<>>)

\* a validate call for one Node, the only candidate, on a value that is not
\* a dictionary
one_node_not_a_dictionary ==
    /\ returned /\ function = "validate" /\ ~is_dict(obj)
    /\ (value = NONE) # (choice = NONE)
    /\ Len(candidate_nodes(value, choice)) = 1
    /\ ~kwargs_dont_match(candidate_nodes(value, choice)[1], kwargs)

\* the two outcomes are the same result or the same exception
same_result(r1, r2) ==
    /\ r1.st = r2.st
    /\ is_ok(r2) => r1.res = r2.res
    /\ ~is_ok(r2) => (r1.kind = r2.kind /\ r1.msg = r2.msg /\ r1.args = r2.args)

\* C11: Shortform. A value that is not a dictionary raises an
\* InvalidParamsException for a Node without a shortform_field. For a Node
\* with one, the value is validated by the shortform_field first, whose
\* exception is the outcome; then it is converted, and the call raises a
\* ProgrammingError if the conversion is not a dictionary and otherwise
\* gives what the validation of the converted dictionary gives. A candidate
\* of the loop validates such a value only if it has a shortform_field.
C11_Shortform ==
    /\ one_node_not_a_dictionary =>
        \E node \in {candidate_nodes(value, choice)[1]} :
            IF ~node.has_shortform
            THEN /\ is_invalid(outcome)
                 /\ outcome.msg = "the value must be a dictionary"
            ELSE \E tmp \in {call_Field_validate(node.shortform_field, obj,
                                                 entry_stack_objects, kwargs)} :
                 \E converted \in {shortform_conversion(node, obj)} :
                    CASE tmp.st = "raise" -> same_result(outcome, tmp)
                      [] ~is_dict(converted) ->
                            /\ outcome.st = "raise"
                            /\ outcome.kind = "ProgrammingError"
                            /\ outcome.msg =
                                "the shortform conversion did not return a dict"
                      [] OTHER ->
                            \E r \in {call_execute_function_on_node(
                                          "validate", converted,
                                          entry_stack_objects, kwargs, value,
                                          choice)} :
                                same_result(outcome, r)
    /\ ~is_dict(obj) =>
        \A i \in 1..Len(successful_parsing_values) :
            value_to_node(successful_parsing_values[i].node).has_shortform

\* a number was validated as a 'constant' and became its 'val'
C11_ShortformExpanded ==
    /\ one_node_not_a_dictionary
    /\ candidate_nodes(value, choice)[1].has_shortform
    /\ is_ok(outcome)
    /\ dict_get(outcome.res, "val") = obj

\* C11 as it is stated: a shortform conversion that does not give a
\* dictionary raises an InvalidParamsException
C11_ConversionNotAMapIsInvalidInput ==
    (/\ one_node_not_a_dictionary
     /\ candidate_nodes(value, choice)[1].has_shortform
     /\ is_ok(call_Field_validate(
                  candidate_nodes(value, choice)[1].shortform_field, obj,
                  entry_stack_objects, kwargs))
     /\ ~is_dict(shortform_conversion(candidate_nodes(value, choice)[1], obj)))
    => is_invalid(outcome)

\* the raw values that a raw value holds where a numerical_node is
\* expected: the summands of a sum, the parts of a constant_multiple and
\* the on_error of a user_input
parts_of(v) ==
    IF ~is_dict(v) THEN {}
    ELSE {dict_get(v, key) : key \in {"constant", "rest", "on_error"}
                                        \cap SeqToSet(dict_keys(v))}
         \cup (IF dict_has(v, "summands") /\ dict_get(v, "summands").k = "list"
               THEN SeqToSet(dict_get(v, "summands").items)
               ELSE {})

\* the raw value is a user_input node, with its 'type' or without
is_user_input(v) ==
    /\ is_dict(v)
    /\ IF dict_has(v, "type") THEN dict_get(v, "type") = Str("user_input")
       ELSE dict_has(v, "message")

RECURSIVE holds_user_input(_)
RECURSIVE user_input_in_constant(_)

\* the raw value is a user_input node or holds one
holds_user_input(v) ==
    is_user_input(v) \/ \E part \in parts_of(v) : holds_user_input(part)

\* the raw value has a user_input node inside the 'constant' of a
\* constant_multiple
user_input_in_constant(v) ==
    \/ is_dict(v) /\ dict_has(v, "constant")
        /\ holds_user_input(dict_get(v, "constant"))
    \/ \E part \in parts_of(v) : user_input_in_constant(part)

\* C12: Forbidden context. validate_example_object raises an
\* InvalidParamsException for a raw value that has a user_input node, with
\* its 'type' or without, inside the 'constant' of a constant_multiple.
C12_ForbiddenContext ==
    (/\ entry = "validate_example_object" /\ pc = "done"
     /\ user_input_in_constant(obj))
    => is_invalid(outcome)

\* C13: The two kinds of error. validate_example_object returns a tree or
\* raises an InvalidParamsException, never a ProgrammingError or another
\* exception, whatever the raw value is; and the handler of the entry point
\* raises an InvalidParamsException again as one and every other exception
\* as a ProgrammingError.
C13_TwoErrorKinds ==
    /\ (entry = "validate_example_object" /\ pc = "done") =>
            (is_ok(outcome) \/ is_invalid(outcome))
    /\ (entry = "validate_example_object" /\ pc = "returned"
            /\ ~is_ok(outcome)) =>
            \E e \in {detailed_error_handler_with_node_trace(
                          outcome, stack_objects)} :
                IF is_invalid(outcome) THEN is_invalid(e)
                ELSE e.st = "raise" /\ e.kind = "ProgrammingError"

\* C14: validate_example_object raises an InvalidParamsException for every
\* raw value that it does not accept; for a raw value that is not a
\* dictionary it is the one that says so.
C14_RejectsWithInvalidParams ==
    (entry = "validate_example_object" /\ pc = "done" /\ ~is_ok(outcome)) =>
        /\ is_invalid(outcome)
        /\ ~is_dict(obj) => outcome.msg = "the value needs to be a dictionary"

-----------------------------------------------------------------------------
(* Properties of the registry *)

\* the class statements that ended without an exception and defined a node
defined_nodes ==
    {i \in 1..Len(classes) :
        classes[i].created /\ ~classes[i].Meta.is_an_abstract_class}

\* C15: Sealed registry. Once finalize has been called, no step changes a
\* table of the registry, and a class statement that is executed ends in a
\* ProgrammingError.
C15_SealedRegistry ==
    [][registry.finalize_has_been_called =>
            /\ registry' = registry
            /\ (classes' # classes =>
                    registry_outcome'.kind = "ProgrammingError")]_all_vars

\* C27: Validation never mutates the schema registry. Once finalize has
\* been called, a call of execute_function_on_node, for validate or for
\* another function, with the name of any node or group, leaves every table
\* of the registry as it was.
C27_CallsLeaveRegistryAlone ==
    [][(registry.finalize_has_been_called
            /\ registry_outcome'.op = "execute_function_on_node") =>
            registry' = registry]_all_vars


\* the names of the nodes and of the groups that the tables know
registered_names == key_set(registry.value_to_node)
registered_groups == key_set(registry.choice_to_type_to_values)

\* what finalize asks of the tables
references_are_defined ==
    /\ registry.debug_referenced_values \subseteq registered_names
    /\ registry.debug_referenced_choices \subseteq registered_groups
groups_are_documented == registered_groups \subseteq registry.choice_to_description
no_group_is_named_like_a_node == registered_groups \cap registered_names = {}

\* C16: Registry well-formedness. No two defined nodes have the same name
\* or the same tag in the same group, the tables give each name and each
\* tag of a group to the one node that defined it, and as long as no class
\* statement has raised no group is named like a node. When finalize
\* returns normally every referenced name and group is defined, every
\* group is documented and no group is named like a node; when one of
\* these does not hold, finalize raises a ProgrammingError.
C16_WellFormed ==
    /\ \A i, j \in defined_nodes :
            i # j =>
                /\ classes[i].Meta.name # classes[j].Meta.name
                /\ classes[i].Meta.choice_of # NONE =>
                        <<classes[i].Meta.choice_of, classes[i].Meta.choice_type>>
                            # <<classes[j].Meta.choice_of,
                                classes[j].Meta.choice_type>>
    /\ \A i \in defined_nodes :
            /\ dict_has(registry.value_to_node, classes[i].Meta.name)
            /\ dict_get(registry.value_to_node, classes[i].Meta.name) = i
            /\ classes[i].Meta.choice_of # NONE =>
                    /\ dict_has(registry.choice_to_type_to_values,
                                classes[i].Meta.choice_of)
                    /\ \E types \in {dict_get(registry.choice_to_type_to_values,
                                              classes[i].Meta.choice_of)} :
                            /\ dict_has(types, classes[i].Meta.choice_type)
                            /\ dict_get(types, classes[i].Meta.choice_type)
                                    = classes[i].Meta.name
    /\ (\A i \in 1..Len(classes) : classes[i].created) =>
            no_group_is_named_like_a_node
    /\ registry_outcome.st # "none" /\ registry_outcome.op = "finalize" =>
            /\ registry.finalize_has_been_called
            /\ IF /\ references_are_defined
                  /\ groups_are_documented
                  /\ no_group_is_named_like_a_node
               THEN registry_outcome.st = "ok"
               ELSE /\ registry_outcome.st = "raise"
                    /\ registry_outcome.kind = "ProgrammingError"

\* finalize has returned normally for tables with a group, two nodes in it
\* and references to a node and to a group
C16_FinalizedWithGroupAndReferences ==
    /\ registry_outcome.st = "ok"
    /\ registry_outcome.op = "finalize"
    /\ registry.debug_referenced_values # {}
    /\ registry.debug_referenced_choices # {}
    /\ Cardinality({i \in defined_nodes : classes[i].Meta.choice_of = "g"}) = 2

\* the class statements from Node down to class statement i
RECURSIVE ancestor_chain(_)
ancestor_chain(i) ==
    IF i = 0 THEN <<>> ELSE ancestor_chain(classes[i].base) \o <<i>>

\* the name that an attribute of a class body declares a field for
declared_name(attribute) ==
    CHOOSE n \in {"a", "b", "c"} : attribute \in {n, n \o "_"}

\* the names that class statement j declares fields for
declared_names(j) ==
    {declared_name(classes[j].dict[k][1]) : k \in 1..Len(classes[j].dict)}

\* the names that two classes of the chain of class statement i declare
declared_twice(i) ==
    {n \in {"a", "b", "c"} :
        \E j, k \in SeqToSet(ancestor_chain(i)) :
            j < k /\ n \in declared_names(j) /\ n \in declared_names(k)}

\* the class statements of the chain of i that declare n
declaring(i, n) == {j \in SeqToSet(ancestor_chain(i)) : n \in declared_names(j)}

\* the messages of _register_that_a_node_was_defined, which runs before the
\* fields are looked at
registration_messages ==
    {"can't define any more Nodes! finalize() has already been called!",
     "can't define two nodes with the same name/value",
     "if a 'choice_of' is given, a 'choice_type' must also be given.",
     "can't define the type twice"}

\* C17: Inheritance collision. When the class statement of a node declares
\* a field under a name that another class of its chain declares, a name
\* with one trailing underscore being the name without it, and the node
\* does not list the name in overwrites_existing_fields, the statement
\* raises a ProgrammingError; when the statement ends normally, the list of
\* the fields of the node has each declared name once, with the Field of
\* the most specific class that declares it.
C17_InheritanceCollision ==
    \A i \in 1..Len(classes) :
        ~classes[i].Meta.is_an_abstract_class =>
            /\ ~(declared_twice(i)
                    \subseteq SeqToSet(classes[i].Meta.overwrites_existing_fields)) =>
                    /\ ~classes[i].created
                    /\ classes[i].raised \in
                            registration_messages \cup {"field is already defined"}
            /\ classes[i].created =>
                    /\ dict_has(registry.value_to_node_fields, classes[i].Meta.name)
                    /\ \E list_of_fields \in
                            {dict_get(registry.value_to_node_fields,
                                      classes[i].Meta.name)} :
                        /\ {list_of_fields[p][1] : p \in 1..Len(list_of_fields)}
                                = UNION {declared_names(j) :
                                            j \in SeqToSet(ancestor_chain(i))}
                        /\ \A p, q \in 1..Len(list_of_fields) :
                                p # q => list_of_fields[p][1] # list_of_fields[q][1]
                        /\ \A p \in 1..Len(list_of_fields) :
                                \A j \in declaring(i, list_of_fields[p][1]) :
                                    j <= list_of_fields[p][2].declared_in

\* a node is defined whose body declares the field a under the name a_
\* and replaces the field a of the class it extends
C17_OverrideUnderAnotherSpelling ==
    \E i \in defined_nodes :
        /\ "a" \in declared_twice(i)
        /\ \E k \in 1..Len(classes[i].dict) : classes[i].dict[k][1] = "a_"

\* the order_of_creation of the Field that first declared n in the chain
\* of class statement i
first_order_of_creation(i, n) ==
    LET j == CHOOSE j \in declaring(i, n) : \A k \in declaring(i, n) : j <= k
        at == CHOOSE k \in 1..Len(classes[j].dict) :
                    declared_name(classes[j].dict[k][1]) = n
    IN  classes[j].dict[at][2].order_of_creation

\* C18: Position of an overridden field. The list of the fields of a
\* defined node is in the order in which the names were first declared in
\* its chain.
C18_OverriddenFieldKeepsPosition ==
    \A i \in defined_nodes :
        \E list_of_fields \in {dict_get(registry.value_to_node_fields,
                                        classes[i].Meta.name)} :
            \A p, q \in 1..Len(list_of_fields) :
                p < q => first_order_of_creation(i, list_of_fields[p][1])
                            < first_order_of_creation(i, list_of_fields[q][1])

-----------------------------------------------------------------------------
(* Properties of the Fields *)

\* a Mapping was called with a dictionary
mapping_called == field_outcome # NoOutcome /\ field_input.field.kind = "Mapping"
                    /\ is_dict(field_input.val)

\* what the Field of the keys makes of a raw key
validated_key(k) ==
    call_Field_validate(field_input.field.string_key, Str(k),
                        validate_stack_objects, NoKwargs)

\* the integer that a string of digits with a sign stands for
RECURSIVE integer_of(_)
integer_of(s) ==
    CASE s = "" -> 0
      [] SubSeq(s, 1, 1) = "-" -> 0 - integer_of(Tail(s))
      [] OTHER -> 10 * integer_of(SubSeq(s, 1, Len(s) - 1))
                    + (CHOOSE d \in 0..9 :
                        SubSeq("0123456789", d + 1, d + 1)
                            = SubSeq(s, Len(s), Len(s)))

\* C19: Mapping key collision. When two keys of the raw dictionary
\* validate to the same key the Mapping raises InvalidParamsException;
\* when it returns, the result has as many keys as the raw dictionary,
\* they are the validated raw keys, and they are in increasing order, of
\* the integers for the keys of an IntegerAsString and of the strings
\* otherwise.
C19_MappingKeyCollision ==
    mapping_called =>
        \E raw \in {dict_keys(field_input.val)} :
            /\ (\E i, j \in 1..Len(raw) :
                    /\ i # j
                    /\ is_ok(validated_key(raw[i]))
                    /\ validated_key(raw[i]) = validated_key(raw[j]))
                    => is_invalid(field_outcome)
            /\ is_ok(field_outcome) =>
                \E keys \in {dict_keys(field_outcome.res)} :
                    /\ Len(keys) = Len(raw)
                    /\ SeqToSet(keys)
                            = {validated_key(raw[i]).res.s : i \in 1..Len(raw)}
                    /\ \A p, q \in 1..Len(keys) :
                            p < q =>
                                IF field_input.field.string_key.kind
                                        = "IntegerAsString"
                                THEN integer_of(keys[p]) < integer_of(keys[q])
                                ELSE string_less(keys[p], keys[q])

\* a Mapping with the keys of an IntegerAsString has refused a dictionary
\* with the keys ' 1' and '1', whose values are valid
C19_TwoSpellingsOfOneInteger ==
    /\ mapping_called
    /\ field_input.field.string_key.kind = "IntegerAsString"
    /\ dict_keys(field_input.val) = <<" 1", "1">>
    /\ \A i \in 1..2 : field_input.val.items[i][2] = Num(1)
    /\ is_invalid(field_outcome)
    /\ field_outcome.msg
            = "after validating and simplifying, the key occurs more than once."

\* the values that the raw value of a MultipleChoiceSelection contains
contained_values(val) ==
    CASE val.k = "null" -> {}
      [] val.k = "list" -> SeqToSet(val.items)
      [] OTHER -> {val}

\* C20: Enumeration field. A MultipleChoiceSelection returns exactly when
\* every value that the raw value contains is one of the choices, and
\* raises InvalidParamsException otherwise; it returns the choices that
\* occur in the raw value, each once, in the order of the choices.
C20_Enumeration ==
    (field_outcome # NoOutcome
        /\ field_input.field.kind = "MultipleChoiceSelection") =>
            IF \A a \in contained_values(field_input.val) :
                    a.k = "str" /\ a.s \in SeqToSet(field_input.field.choices)
            THEN /\ is_ok(field_outcome)
                 /\ field_outcome.res =
                        List(SelectSeq(
                            [i \in 1..Len(field_input.field.choices) |->
                                Str(field_input.field.choices[i])],
                            LAMBDA c : c \in contained_values(field_input.val)))
            ELSE is_invalid(field_outcome)

-----------------------------------------------------------------------------
(* Further properties of the validation engine *)

\* a validate call that names one node has come back, the node belongs to
\* a group, the kwargs are those the node requires and the raw value is a
\* dictionary
single_type_reference_returned ==
    /\ returned /\ function = "validate"
    /\ value # NONE /\ choice = NONE
    /\ is_dict(obj)
    /\ \E candidates \in {candidate_nodes(value, choice)} :
            /\ has_choice_type(candidates[1])
            /\ ~kwargs_dont_match(candidates[1], kwargs)

\* C30: Single-type reference to a node of a group. A validate call that
\* names the node returns a map whose first key is 'type' with the
\* choice_type of the node, and raises InvalidParamsException when the raw
\* map has a 'type' that is not the choice_type of the node.
C30_SingleTypeReference ==
    single_type_reference_returned =>
        \E tag \in {Str(candidate_nodes(value, choice)[1].choice_type)} :
            /\ is_ok(outcome) =>
                    /\ Len(outcome.res.items) > 0
                    /\ outcome.res.items[1] = <<"type", tag>>
            /\ (dict_has(obj, "type") /\ dict_get(obj, "type") # tag) =>
                    is_invalid(outcome)

\* C24: Trace balance. When a validate call returns, the node_trace and
\* the current_object of the stack_objects are as they were when it was
\* called, also when the loop over the candidates has replaced the
\* stack_objects by the copy of the candidate that succeeded; and
\* validate_example_object never raises the ProgrammingError for an
\* imbalanced node_trace. (A caller that names node_trace in
\* immutable_fields shares the list with the candidates; the property is
\* for the callers that do not.)
C24_TraceBalance ==
    /\ (/\ returned /\ function = "validate" /\ is_ok(outcome)
        /\ "node_trace" \notin SeqToSet(entry_stack_objects.immutable_fields))
        =>
            /\ outcome.so.node_trace = entry_stack_objects.node_trace
            /\ outcome.so.current_object = entry_stack_objects.current_object
            /\ stack_objects.node_trace = entry_stack_objects.node_trace
            /\ stack_objects.current_object = entry_stack_objects.current_object
    /\ (entry = "validate_example_object" /\ pc \in {"returned", "done"}) =>
            /\ is_ok(outcome) => stack_objects.node_trace = <<>>
            /\ ~is_ok(outcome) => outcome.msg # "the node_trace is imbalanced."

\* a call made inside a node_trace_step has returned after its loop: the
\* first candidate failed and left frames in its copy, a later one
\* succeeded and its copy has replaced the stack_objects
C24_BalancedAfterBacktracking ==
    /\ loop_finished /\ is_ok(outcome)
    /\ entry_stack_objects.node_trace # <<>>
    /\ entry_stack_objects.current_object # Null
    /\ "node_trace" \notin SeqToSet(entry_stack_objects.immutable_fields)
    /\ \E r \in {call_try_candidate(candidate_nodes(value, choice)[1], obj,
                                    entry_stack_objects, kwargs)} :
            is_invalid(r) /\ r.so.node_trace # entry_stack_objects.node_trace

\* no slot that is altered in place is shared between the candidates and
\* the caller
no_shared_slot_is_altered ==
    SeqToSet(entry_stack_objects.immutable_fields) \cap altered_in_place = {}

\* the raw map with the key 'type' set to the choice_type of the node
with_type_of(m, node_name) ==
    dict_set(m, "type", Str(value_to_node(node_name).choice_type))

\* C26: Backtracking is equivalent to tagged dispatch. When the loop over
\* the candidates of a group ends with one success for a raw map, the
\* validate call for the same map with 'type' set to the choice_type of
\* the candidate that succeeded, from the same stack_objects, returns the
\* same tree and leaves the same stack_objects.
C26_BacktrackingIsTaggedDispatch ==
    (/\ loop_finished /\ Len(successful_parsing_values) = 1
     /\ is_dict(obj) /\ no_shared_slot_is_altered) =>
        \E tagged \in {call_execute_function_on_node(
                            "validate",
                            with_type_of(obj, successful_parsing_values[1].node),
                            entry_stack_objects, kwargs, value, choice)} :
            /\ is_ok(tagged)
            /\ tagged.res = outcome.res
            /\ tagged.so = outcome.so
            /\ tagged.so = stack_objects

\* the loop has chosen the second member of a group for a map that the
\* first member refuses inside a field, and the winner has written to the
\* stack_objects
C26_ResolvedAfterAFailure ==
    /\ loop_finished /\ Len(successful_parsing_values) = 1
    /\ is_dict(obj) /\ no_shared_slot_is_altered
    /\ successful_parsing_values[1].node
            # candidate_nodes(value, choice)[1].name
    /\ stack_objects # entry_stack_objects
    /\ \E r \in {call_try_candidate(candidate_nodes(value, choice)[1], obj,
                                    entry_stack_objects, kwargs)} :
            is_invalid(r) /\ r.so.node_trace # entry_stack_objects.node_trace

\* a validated constant: 'type' and a 'val' from -1000 to 1000
canonical_constant(v) ==
    /\ is_dict(v) /\ dict_keys(v) = <<"type", "val">>
    /\ dict_get(v, "type") = Str("constant")
    /\ is_number(dict_get(v, "val"))
    /\ number_of(dict_get(v, "val")) \in -1000..1000

\* what the 'constant' part of a raw constant_multiple evaluates to once
\* it is validated as the field 'constant' validates it
evaluations_of_constant_part(raw) ==
    {e \in {call_execute_function_on_node(
                "evaluate", v.res, validate_stack_objects, NoKwargs,
                NONE, "numerical_node") :
            v \in {w \in {call_execute_function_on_node(
                              "validate", dict_get(raw, "constant"),
                              validate_stack_objects, allow(FALSE),
                              NONE, "numerical_node")} : is_ok(w)}} :
        is_ok(e)}

RECURSIVE constant_parts_are_evaluated(_, _)
\* in the validated tree res of the raw value raw, the 'constant' of every
\* constant_multiple is a validated constant whose 'val' is what the raw
\* 'constant' part evaluates to
constant_parts_are_evaluated(raw, res) ==
    LET type == dict_get(res, "type").s
    IN  CASE type = "constant_multiple" ->
                /\ canonical_constant(dict_get(res, "constant"))
                /\ evaluations_of_constant_part(raw) # {}
                /\ \A e \in evaluations_of_constant_part(raw) :
                        e.res = dict_get(dict_get(res, "constant"), "val")
                /\ constant_parts_are_evaluated(dict_get(raw, "rest"),
                                                dict_get(res, "rest"))
          [] type = "sum" ->
                \A i \in 1..Len(dict_get(res, "summands").items) :
                    constant_parts_are_evaluated(
                        dict_get(raw, "summands").items[i],
                        dict_get(res, "summands").items[i])
          \* a constant and a user_input have no numerical_node in them
          [] OTHER -> TRUE

RECURSIVE has_user_input(_)
has_user_input(t) ==
    LET type == dict_get(t, "type").s
    IN  CASE type = "user_input" -> TRUE
          [] type = "sum" ->
                \E i \in 1..Len(dict_get(t, "summands").items) :
                    has_user_input(dict_get(t, "summands").items[i])
          [] type = "constant_multiple" ->
                has_user_input(dict_get(t, "constant"))
                \/ has_user_input(dict_get(t, "rest"))
          [] OTHER -> FALSE

RECURSIVE number_denoted(_)
RECURSIVE sum_denoted(_, _)
\* the number a validated tree without user_input stands for
number_denoted(t) ==
    LET type == dict_get(t, "type").s
    IN  CASE type = "sum" -> sum_denoted(dict_get(t, "summands").items, 1)
          [] type = "constant_multiple" ->
                number_denoted(dict_get(t, "constant"))
                    * number_denoted(dict_get(t, "rest"))
          [] OTHER -> number_of(dict_get(t, "val"))
sum_denoted(items, i) ==
    IF i > Len(items) THEN 0
    ELSE number_denoted(items[i]) + sum_denoted(items, i + 1)

\* the raw value is a map that the group resolves to constant_multiple,
\* and its 'constant' part validates and evaluates to a number that is no
\* value of a constant
constant_part_out_of_range(raw) ==
    /\ is_dict(raw) /\ dict_has(raw, "constant")
    /\ \E e \in evaluations_of_constant_part(raw) :
            ~is_number(e.res) \/ number_of(e.res) \notin -1000..1000

\* C22: Evaluation of the example grammar. In the tree validate returns,
\* the 'constant' of every constant_multiple is a validated constant
\* ('type' constant, 'val' from -1000 to 1000) whose 'val' is the
\* evaluation of the constant part that was submitted; validate fails with
\* an InvalidParamsException when that evaluation is no value of a
\* constant; and evaluate returns 'val' for a constant, the sum of the
\* summands for a sum and constant times rest for a constant_multiple.
C22_EvaluationOfExampleGrammar ==
    /\ (returned /\ entry = "validate_example_object" /\ is_ok(outcome)) =>
            constant_parts_are_evaluated(obj, outcome.res)
    /\ (returned /\ entry = "validate_example_object"
            /\ constant_part_out_of_range(obj)) =>
            is_invalid(outcome)
    /\ (returned /\ entry = "evaluate_numerical_node"
            /\ ~has_user_input(obj)) =>
            /\ is_ok(outcome)
            /\ dict_get(obj, "type") = Str("constant") =>
                    outcome.res = dict_get(obj, "val")
            /\ dict_get(obj, "type") # Str("constant") =>
                    outcome.res = Num(number_denoted(obj))

\* the first summand of demos/03_evaluation.py, validated, has evaluated
\* to 1260
C22_Demo03Evaluated ==
    /\ returned /\ entry = "evaluate_numerical_node"
    /\ dict_get(obj, "type") = Str("constant_multiple")
    /\ dict_get(dict_get(obj, "constant"), "val") = Num(30)
    /\ dict_get(dict_get(obj, "rest"), "val") = Num(42)
    /\ outcome = Ok(Num(1260), evaluate_stack_objects)

\* a constant_multiple whose constant part evaluates to more than 1000 has
\* been refused
C22_ConstantPartRefused ==
    /\ returned /\ entry = "validate_example_object"
    /\ constant_part_out_of_range(obj)
    /\ is_invalid(outcome)

\* does the part, validated on its own, fail
field_fails(field, val, kw) ==
    ~is_ok(call_Field_validate(field, val, validate_stack_objects, kw))

\* the node a reference settles on before it validates: the only
\* candidate, or the member of the group that the 'type' names
selected_nodes(v, c, o) ==
    LET candidates == candidate_nodes(v, c)
        tags == choice_types(candidates)
    IN  IF Len(candidates) = 1 THEN candidates
        ELSE IF is_dict(o) /\ dict_has(o, "type")
                /\ dict_get(o, "type").k = "str"
                /\ dict_get(o, "type").s \in SeqToSet(tags)
        THEN <<candidates[IndexOf(tags, dict_get(o, "type").s)]>>
        ELSE <<>>

\* the candidates of the loop that raise something else than an
\* InvalidParamsException
escaping_candidates(v, c, o, kw) ==
    {i \in 1..Len(candidate_nodes(v, c)) :
        \E r \in {call_try_candidate(candidate_nodes(v, c)[i], o,
                                     validate_stack_objects, kw)} :
            r.st = "raise" /\ ~is_invalid(r)}

least(S) == CHOOSE i \in S : \A j \in S : i <= j

\* the fields of the node at which the loop of Node.validate stops: a
\* field that is there and fails, or a required field that is not there
stopping_fields(cls, o, kw) ==
    {i \in 1..Len(cls.fields) :
        /\ ~cls.fields[i][2].dont_auto_validate
        /\ IF dict_has(o, cls.fields[i][1])
           THEN field_fails(cls.fields[i][2], dict_get(o, cls.fields[i][1]), kw)
           ELSE cls.fields[i][2].required}

\* the elements of the list that fail
failing_indices(field, items, kw) ==
    {i \in 1..Len(items) :
        IF field.primitive.kind # NONE
           /\ ((field.value = NONE /\ field.choice = NONE)
               \/ is_primitive(items[i]))
        THEN field_fails(field.primitive, items[i], kw)
        ELSE ~is_ok(call_execute_function_on_node(
                        "validate", items[i], validate_stack_objects,
                        get_kwargs_to_use(kw, field.kwargs),
                        field.value, field.choice))}

RECURSIVE site_in_reference(_, _, _, _)
RECURSIVE site_in_node(_, _, _)
RECURSIVE site_in_dict(_, _, _)
RECURSIVE site_in_field(_, _, _)

\* The frames from a reference that fails to the place where the exception
\* is raised: the first field in the order of the fields that fails, the
\* lowest index that fails, and so on down.
site_in_reference(v, c, o, kw) ==
    LET candidates == candidate_nodes(v, c)
        selected == selected_nodes(v, c, o)
        in_loop == call_dispatch("validate", o, validate_stack_objects, kw,
                                 v, c) = Ambiguous
        escaping == escaping_candidates(v, c, o, kw)
        first == candidates[least(escaping)]
    IN  CASE in_loop /\ escaping # {} /\ is_dict(o) ->
                site_in_dict(first, o, kw)
          [] in_loop /\ escaping # {}
                /\ is_dict(shortform_conversion(first, o)) ->
                site_in_dict(first, shortform_conversion(first, o), kw)
          [] in_loop -> <<>>
          [] \E i \in 1..Len(candidates) :
                kwargs_dont_match(candidates[i], kw) -> <<>>
          [] Len(selected) = 1 -> site_in_node(selected[1], o, kw)
          [] OTHER -> <<>>

site_in_node(cls, o, kw) ==
    CASE is_dict(o) -> site_in_dict(cls, o, kw)
      [] ~cls.has_shortform -> <<>>
      [] field_fails(cls.shortform_field, o, kw) ->
            <<"conversion from shortform">>
      [] ~is_dict(shortform_conversion(cls, o)) ->
            <<"conversion from shortform">>
      [] OTHER -> site_in_dict(cls, shortform_conversion(cls, o), kw)

site_in_dict(cls, o, kw) ==
    LET stops == stopping_fields(cls, o, kw)
        field_name == cls.fields[least(stops)][1]
        field == cls.fields[least(stops)][2]
        evaluated == call_execute_function_on_node(
                        "evaluate",
                        dict_get(call_Node_validate(
                                     cls, o, validate_stack_objects, kw).res,
                                 "constant"),
                        validate_stack_objects, NoKwargs,
                        NONE, "numerical_node")
    IN  CASE \E i \in 1..Len(o.items) : ~key_is_accepted(cls, o.items[i][1]) ->
                <<>>
          [] stops # {} /\ dict_has(o, field_name) ->
                <<field_name>> \o site_in_field(field, dict_get(o, field_name), kw)
          [] stops # {} -> <<>>
          [] cls.validate = "ConstantMultipleNode" /\ ~is_ok(evaluated) ->
                <<"[validating constant_multiple, evaluating constant part]">>
          [] cls.validate = "ConstantMultipleNode"
                /\ ~is_ok(call_execute_function_on_node(
                              "validate", evaluated.res,
                              validate_stack_objects, allow(FALSE),
                              "constant", NONE)) ->
                <<"[validating constant_multiple, re-validating constant part after validation]">>
                    \o site_in_reference("constant", NONE, evaluated.res,
                                         allow(FALSE))
          [] OTHER -> <<>>

site_in_field(field, val, kw) ==
    CASE is_none(val) -> <<>>
      [] field.kind \in {"Value", "Choice"}
            /\ kwargs_key_error(kw, field.kwargs) -> <<>>
      [] field.kind = "Value" ->
            site_in_reference(field.value, NONE, val,
                              get_kwargs_to_use(kw, field.kwargs))
      [] field.kind = "Choice" ->
            site_in_reference(NONE, field.choice, val,
                              get_kwargs_to_use(kw, field.kwargs))
      [] field.kind = "PrimitiveValueOrGetter" /\ is_primitive(val) ->
            site_in_field(field.primitive_field, val, kw)
      [] field.kind = "PrimitiveValueOrGetter" ->
            site_in_field(field.complex_field, val, kw)
      [] field.kind = "List" /\ val.k = "list"
            /\ (is_none(field.min_length)
                \/ Len(val.items) >= field.min_length.n)
            /\ failing_indices(field, val.items, kw) # {} ->
            LET i == least(failing_indices(field, val.items, kw))
            IN  <<"index " \o ToString(i - 1)>>
                \o (IF field.primitive.kind # NONE
                       /\ ((field.value = NONE /\ field.choice = NONE)
                           \/ is_primitive(val.items[i]))
                    THEN <<>>
                    ELSE site_in_reference(
                             field.value, field.choice, val.items[i],
                             get_kwargs_to_use(kw, field.kwargs)))
      [] OTHER -> <<>>

\* validate_example_object has failed for a dictionary
top_level_validate_failed ==
    /\ pc = "done" /\ entry = "validate_example_object"
    /\ is_dict(obj) /\ ~is_ok(outcome)

\* C25: Position accuracy on failure. When validate_example_object fails
\* for a dictionary, the node_trace that the error is reported with is the
\* sequence of frames from the root to the place where the exception was
\* raised, that place being in the first field in the order of the fields
\* that fails, respectively at the lowest index that fails, of its parent.
C25_PositionAccuracy ==
    top_level_validate_failed =>
        outcome.so.node_trace
            = site_in_reference(NONE, "numerical_node", obj, allow(TRUE))

\* the same, for the failures that are an InvalidParamsException
C25_PositionOfInvalidParams ==
    (top_level_validate_failed /\ is_invalid(outcome)) =>
        outcome.so.node_trace
            = site_in_reference(NONE, "numerical_node", obj, allow(TRUE))

-----------------------------------------------------------------------------
(* Properties of the value that is displayed with an error *)

RECURSIVE nesting(_)
\* how many lists and maps are inside one another
nesting(v) ==
    IF v.k \notin {"list", "map"} THEN 0
    ELSE IF Len(v.items) = 0 THEN 1
    ELSE 1 + least({n \in 0..(MaxNesting + 1) :
                        \A i \in 1..Len(v.items) :
                            nesting(IF v.k = "map" THEN v.items[i][2]
                                    ELSE v.items[i]) <= n})

RECURSIVE within_limits(_)
\* no string of more than 100 characters, no list of more than 3 elements
\* and a count, no map of more than 10 fields
within_limits(v) ==
    CASE v.k = "str" -> Len(v.s) <= max_string_length
      [] v.k = "list" ->
            /\ Len(v.items) <= max_list_length + 1
            /\ \A i \in 1..Len(v.items) : within_limits(v.items[i])
      [] v.k = "map" ->
            /\ Len(v.items) <= max_dict_field_count
            /\ \A i \in 1..Len(v.items) : within_limits(v.items[i][2])
      [] OTHER -> TRUE

\* is part a part of the text
occurs_in(part, text) ==
    \E i \in 1..(Len(text) - Len(part) + 1) :
        SubSeq(text, i, i + Len(part) - 1) = part

displayed ==
    pc = "done" /\ entry = "simplify_stack_objects_current_object_for_display"

\* C21: Bounded error snapshot. The value that is displayed with an error
\* is the text of a value in which no string has more than 100 characters,
\* no list more than 3 elements and a count of the rest, no map more than
\* 10 fields, and in which lists and maps are nested no deeper than three
\* levels, whatever the value was.
C21_BoundedSnapshot ==
    displayed =>
        \E shown \in {rec_shortener(entry_stack_objects.current_object, depth)} :
            /\ stack_objects.current_object = Str(json_dumps(shown, 0))
            /\ within_limits(shown)
            /\ nesting(shown) <= depth + 1
            /\ ~occurs_in("\n" \o repeat("    ", depth + 2),
                          stack_objects.current_object.s)

RECURSIVE maps_in_maps(_)
\* how many maps are inside one another, with or without lists in between
maps_in_maps(v) ==
    IF v.k \notin {"list", "map"} \/ Len(v.items) = 0
    THEN (IF v.k = "map" THEN 1 ELSE 0)
    ELSE (IF v.k = "map" THEN 1 ELSE 0)
         + least({n \in 0..(MaxNesting + 1) :
                    \A i \in 1..Len(v.items) :
                        maps_in_maps(IF v.k = "map" THEN v.items[i][2]
                                     ELSE v.items[i]) <= n})

\* the same with the limit on the nesting for maps only
C21_BoundedStringsListsAndMaps ==
    displayed =>
        \E shown \in {rec_shortener(entry_stack_objects.current_object, depth)} :
            /\ stack_objects.current_object = Str(json_dumps(shown, 0))
            /\ within_limits(shown)
            /\ maps_in_maps(shown) <= depth + 1

-----------------------------------------------------------------------------
(* Further properties of the fields *)

\* a Float has validated a value
float_validated ==
    field_outcome # NoOutcome /\ field_input.field.kind = "Float"

\* C23: Float field. NaN and the two infinite values are refused with an
\* InvalidParamsException that names them, whatever the bounds of the
\* Field are, and a Float from -1000 to 1000 accepts the numbers from
\* -1000 to 1000 and nothing else, and returns them as they are.
C23_FloatRefusesNaNAndInfinity ==
    float_validated =>
        /\ isnan(field_input.val) =>
                /\ is_invalid(field_outcome)
                /\ field_outcome.msg = "the value must not be NaN."
        /\ isinf(field_input.val) =>
                /\ is_invalid(field_outcome)
                /\ field_outcome.msg = "the value must not be infinite."
        /\ ~is_ok(field_outcome) => is_invalid(field_outcome)
        /\ field_input.field = Float(Num(-1000), Num(1000), FALSE, Null) =>
                /\ is_ok(field_outcome) <=>
                        /\ is_number(field_input.val)
                        /\ number_of(field_input.val) \in -1000..1000
                /\ is_ok(field_outcome) =>
                        field_outcome.res = field_input.val

\* an infinite value has been refused by a Float that has a maximum, and
\* NaN by a Float without bounds
C23_InfinityRefusedBeforeTheMaximum ==
    /\ float_validated
    /\ field_input.val = Infinity
    /\ field_input.field.max = Num(1000)
    /\ field_outcome.msg = "the value must not be infinite."

-----------------------------------------------------------------------------
(* Properties of the keyword arguments *)

\* the kwargs a caller can have and the kwargs a reference field can declare
argument_names == {"allow_user_input_node", "other"}
given_kwargs_maps ==
    UNION {[names -> {Arg(TRUE), OverwriteKeywordArgOfField(FALSE)}] :
                names \in SUBSET argument_names}
field_kwargs_maps ==
    UNION {[names -> {PASS_ARG_ALONG, Arg(FALSE)}] :
                names \in SUBSET argument_names}

\* the map a reference field hands down has the entries the field declares
\* and the entries the caller forces, and no other
handed_map_is_as_declared(given, declared) ==
    \E handed \in {get_kwargs_to_use(given, declared)} :
    \E forced \in {{k \in DOMAIN given : given[k].t = "overwrite"}} :
        /\ DOMAIN handed = (DOMAIN declared) \cup forced
        /\ \A k \in forced : handed[k] = Arg(given[k].v)
        /\ \A k \in (DOMAIN declared) \ forced :
                handed[k] = IF declared[k] = PASS_ARG_ALONG THEN given[k]
                            ELSE declared[k]

\* the kwargs of the call are not the required ones of some candidate
kwargs_of_the_call_dont_match ==
    \E i \in 1..Len(candidate_nodes(value, choice)) :
        kwargs_dont_match(candidate_nodes(value, choice)[i], kwargs)

\* C28: Context args propagation. The map a reference field hands to its
\* child holds each entry the field declares (the value of the caller for
\* PASS_ARG_ALONG, the value of the field otherwise) and each entry of the
\* caller that is an OverwriteKeywordArgOfField, unwrapped; and a validate
\* call whose kwargs are not exactly the required arguments of every
\* candidate node raises a ProgrammingError.
C28_ContextArgsPropagation ==
    /\ \A given \in given_kwargs_maps, declared \in field_kwargs_maps :
            ~kwargs_key_error(given, declared) =>
                handed_map_is_as_declared(given, declared)
    /\ (/\ returned /\ entry = "execute_function_on_node"
        /\ function = "validate"
        /\ (value = NONE) # (choice = NONE)
        /\ kwargs_of_the_call_dont_match)
       =>
        /\ outcome.st = "raise"
        /\ outcome.kind = "ProgrammingError"
        /\ outcome.msg = "the kwargs don't match for node"

\* a validate call with kwargs that do not match has raised the
\* ProgrammingError
C28_MismatchRefused ==
    /\ returned /\ entry = "execute_function_on_node"
    /\ function = "validate"
    /\ (value = NONE) # (choice = NONE)
    /\ kwargs_of_the_call_dont_match
    /\ outcome.st = "raise"
    /\ outcome.kind = "ProgrammingError"

-----------------------------------------------------------------------------
(* Properties of the objects of a validate call *)

\* a validate call on objects is over
validated_on_heap == heap_call # NoOutcome /\ heap_outcome # NoOutcome

\* the objects that were there before the call
objects_before == 1..Len(heap_call.heap.cells)

\* what the engine above returns or raises for the same call
same_as_the_engine ==
    \E r \in {call_execute_function_on_node(
                  "validate", heap_call.raw, validate_stack_objects,
                  heap_call.kwargs, heap_call.value, heap_call.choice)} :
        IF is_ok(r)
        THEN /\ heap_outcome.st = "ok"
             /\ deref(heap_outcome.heap, heap_outcome.v) = r.res
        ELSE /\ heap_outcome.st = "raise"
             /\ heap_outcome.kind = r.kind

\* C29: The raw input is never modified. After a validate call, whether
\* it returned or raised, with or without a loop over the candidates and
\* with the 'constant' of a constant_multiple replaced, every object that
\* was there before the call is as it was, so the raw value is the raw
\* value of before; and every candidate of a loop was handed the value as
\* it was before the call. The call returns or raises what the engine
\* above does.
C29_RawInputIsNeverModified ==
    validated_on_heap =>
        /\ \A a \in objects_before :
                heap_outcome.heap.cells[a] = heap_call.heap.cells[a]
        /\ deref(heap_outcome.heap, heap_call.obj) = heap_call.raw
        /\ \A i \in 1..Len(heap_outcome.heap.seen) :
            \E handed \in {heap_outcome.heap.seen[i]} :
                (~is_ref(handed[1]) \/ handed[1].a \in objects_before)
                    => handed[2] = deref(heap_call.heap, handed[1])
        /\ same_as_the_engine

\* a constant_multiple without a 'type' has been validated by the loop
\* over the candidates and its 'constant', a sum, has been replaced by a
\* constant in the tree that was returned
C29_ConstantReplacedInTheResult ==
    /\ validated_on_heap
    /\ heap_outcome.st = "ok"
    /\ heap_call.choice = "numerical_node"
    /\ Len(heap_outcome.heap.seen) > 1
    /\ is_dict(heap_call.raw) /\ dict_has(heap_call.raw, "constant")
    /\ is_dict(dict_get(heap_call.raw, "constant"))
    /\ dict_has(dict_get(heap_call.raw, "constant"), "summands")
    /\ \E res \in {deref(heap_outcome.heap, heap_outcome.v)} :
            ~dict_has(dict_get(res, "constant"), "summands")

====
